---- MODULE Spec2Model ----
(***************************************************************************)
(* Incremental extraction and resumption engine of statsport-automation:   *)
(* extract_statsports_data.py (persistence helpers, range planner, day     *)
(* extractor with day->hour fallback, run orchestrator).                   *)
(*                                                                         *)
(* Time is counted in seconds from 2024-03-01T00:00:00 (datetime has       *)
(* second resolution everywhere in the program).  Python dicts are         *)
(* functions with string domains; lists are sequences.                     *)
(***************************************************************************)
EXTENDS Integers, Sequences, FiniteSets, TLC

VARIABLES
    pc,                  \* position of the process in main / extract_all_data_directly
    invocations,         \* number of invocations started so far on the run directory
    io_failures,         \* number of file writes that failed so far
    checkpoint_file,     \* runs/<run_id>/checkpoint.json
    progress_sessions,   \* runs/<run_id>/progress_sessions.jsonl
    progress_players,    \* runs/<run_id>/progress_players.jsonl
    start_date,          \* arguments of extract_all_data_directly
    end_date,
    processed_dates,     \* locals of extract_all_data_directly
    all_sessions,
    all_player_details,
    daily_ranges,
    i,                   \* 1-based index of the loop over daily_ranges
    day_sessions,
    player_details_for_day,
    hourly_ranges,       \* locals of extract_day_with_smart_fallback
    h,                   \* 1-based index of the loop over hourly_ranges
    all_day_sessions,
    full_result,         \* what the current day's full-day call returned
    probe_result,        \* what the current day's probe got back
    hour_kinds,          \* the kinds of answers the current day's hourly calls got
    timeout,             \* client.timeout
    processed_at_start,  \* processed_dates as load_incremental_progress returned it
    events,              \* remote requests and file writes issued for the current day
    planner_period_type, \* period_type argument of get_date_ranges called on its own
    ranges,              \* what that call of get_date_ranges returned
    day_dedup,           \* the list dedup of the per-day deduplication run on its own
    existing_df,         \* arguments of combine_and_deduplicate (update_mason_mount.py)
    new_df,
    all_dataframes,      \* the CSV files of the runs as combine_runs.py read them
    combined_df,         \* the combined frame of either script
    deduplicated_df,     \* what remove_duplicate_sessions returned (combine_runs.py)
    utcnow,              \* datetime.utcnow() in whole seconds
    run_ids,             \* the run_id of every invocation of main so far, in order
    sessions_json,       \* runs/<run_id>/sessions_<start>_<end>.json, by <start>_<end>
    players_json,        \* runs/<run_id>/players_<start>_<end>.json, by <start>_<end>
    csv_file,            \* runs/<run_id>/statsports_<start>_<end>.csv, by <start>_<end>
    retry,               \* retry argument of StatsportsClient.post
    attempt,             \* attempt counter of StatsportsClient.post
    responses,           \* what each attempt of the post got from the transport
    post_state,          \* where the post is: not called, in its loop, returned, raised
    upload_state,        \* where upload_to_onedrive is: not called, put, create, returned
    upload_result,       \* what the outermost upload_to_onedrive returned
    upload_attempts,     \* PUT requests sent so far, counted up to MaxUploads
    upload_log           \* the answers to the first MaxUploads rounds of requests

disk == <<checkpoint_file, progress_sessions, progress_players>>
args == <<start_date, end_date>>
orch == <<processed_dates, all_sessions, all_player_details, daily_ranges, i,
          day_sessions, player_details_for_day, processed_at_start>>
extr == <<hourly_ranges, h, all_day_sessions>>
hist == <<full_result, probe_result, hour_kinds>>
\* the frames of the functions studied on their own, outside a run
frames == <<existing_df, new_df, all_dataframes, combined_df, deduplicated_df>>
pure == <<planner_period_type, ranges, day_dedup, frames>>
\* the clock and the run ids it gave; the consolidated artifacts of the run directory
clock == <<utcnow, run_ids>>
artifacts == <<sessions_json, players_json, csv_file>>
life == <<clock, artifacts>>
\* the calls studied on their own: StatsportsClient.post, upload_to_onedrive
http == <<retry, attempt, responses, post_state>>
onedrive == <<upload_state, upload_result, upload_attempts, upload_log>>
calls == <<http, onedrive>>
vars == <<pc, invocations, io_failures, disk, args, orch, extr, hist, timeout, events, pure,
          life, calls>>

-----------------------------------------------------------------------------
(* Bounds of the model *)

NumDays == 2            \* the CLI dates are drawn from NumDays consecutive dates
MaxInvocations == 2     \* invocations on one run directory (first run + resumes)
MaxIOFailures == 1      \* failed file writes per behaviour
MaxSweepLen == 3        \* session records one hourly sweep accumulates
MaxDayLen == 3          \* session records of a day given to the deduplication on its own
MaxRows == 2            \* rows of each data frame given to the cross-run merges
MaxSeconds == 1         \* seconds that go by while the invocations are started
MaxLogLines == 2        \* lines of a progress log given to the loader on its own
MaxRetry == 2           \* largest retry argument given to StatsportsClient.post
MaxUploads == 4         \* PUT requests of upload_to_onedrive that are counted and logged

(* Program constants *)

SecondsPerDay == 86400      \* timedelta(days=1)
SecondsPerHour == 3600      \* timedelta(hours=1)
StandardTimeout == 60       \* STATSPORTS_TIMEOUT_SECS default
DiscoveryTimeout == 10      \* STATSPORTS_DISCOVERY_TIMEOUT_SECS default
DefaultRetry == 2           \* retry: int = 2 of StatsportsClient.post

-----------------------------------------------------------------------------
(* Python helpers *)

EmptyDict == <<>>
EmptyList == <<>>

Get(d, k, default) == IF k \in DOMAIN d THEN d[k] ELSE default

\* a min that takes its first argument
MinFirst(a, b) == a

Min(a, b) == IF a <= b THEN a ELSE b

Range(s) == {s[n] : n \in DOMAIN s}

RECURSIVE Concat(_)
Concat(ss) == IF ss = <<>> THEN <<>> ELSE Head(ss) \o Concat(Tail(ss))

\* strftime('%Y-%m-%d') of an instant
DateStr(t) == "2024-03-0" \o ToString((t \div SecondsPerDay) + 1)

\* datetime.strptime(s, "%Y-%m-%d"): midnight of the date
ParseDate(s) == CHOOSE t \in {d * SecondsPerDay : d \in 0..(NumDays + 1)} : DateStr(t) = s

\* date_str + "T00:00:00Z"
DateKeyFull(date_str) == date_str \o "T00:00:00Z"

\* sorted(list(processed_dates)): ISO dates sort chronologically
RECURSIVE SortedFrom(_, _)
SortedFrom(d, S) ==
    IF d > NumDays + 1 THEN <<>>
    ELSE (IF DateStr(d * SecondsPerDay) \in S THEN <<DateStr(d * SecondsPerDay)>> ELSE <<>>)
         \o SortedFrom(d + 1, S)
Sorted(S) == SortedFrom(0, S)

-----------------------------------------------------------------------------
(* Session records and the remote API's answers *)

\* a serialization that keeps the keys in arrival order
JsonDumpsUnsorted(d) == d

\* json.dumps(d, sort_keys=True): the key/value pairs in key order
KeyRank(k) == CASE k = "sessionDate" -> 1 [] k = "squadId" -> 2 [] OTHER -> 3
JsonDumpsSorted(d) == SortSeq(d, LAMBDA p, q : KeyRank(p[1]) < KeyRank(q[1]))

\* sessionDetails is a dict given as its key/value pairs in arrival order
SessionA  == [id |-> 1, sessionDetails |-> <<<<"sessionDate", 1>>, <<"squadId", 7>>>>]
SessionA2 == [id |-> 2, sessionDetails |-> <<<<"squadId", 7>>, <<"sessionDate", 1>>>>]
SessionB  == [id |-> 3, sessionDetails |-> <<<<"sessionDate", 2>>, <<"squadId", 7>>>>]

\* records without sessionDetails, and one whose sessionDetails is empty
SessionN  == [id |-> 4]
SessionN2 == [id |-> 5]
SessionE  == [id |-> 6, sessionDetails |-> EmptyDict]

\* the bodies the session endpoint answers with: in the runs with stops and
\* resumes, and in the runs that follow the day extractor request by request
RunResponses == {EmptyList, <<SessionA, SessionA2>>}
DayResponses == {EmptyList, <<SessionA, SessionA2>>, <<SessionB>>}
PlayerResponses == {EmptyList, <<[customPlayerId |-> 10]>>}

\* what client.post does: it returns the decoded body or raises
Raised == [raised |-> TRUE]
Returned(v) == [raised |-> FALSE, value |-> v]
PostOutcomes(bodies) == {Raised} \cup {Returned(b) : b \in bodies}

\* a call either lets an exception escape, or returns None, or returns a list
Escaped == [escaped |-> TRUE]
None == [escaped |-> FALSE, none |-> TRUE]
Some(v) == [escaped |-> FALSE, none |-> FALSE, value |-> v]

-----------------------------------------------------------------------------
(* Incremental persistence helpers *)

NoFile == [exists |-> FALSE]
File(content) == [exists |-> TRUE, content |-> content]

\* what a json.dump that did not finish leaves in a file opened with 'w': a
\* prefix of the document (nothing at all, or its beginning), which json.load
\* rejects
Partial == [partial |-> TRUE]

\* _safe_read_json: the default for a missing file and for one json.load rejects
safe_read_json(file, default) ==
    IF file.exists /\ "partial" \notin DOMAIN file.content THEN file.content ELSE default

\* a line of a log that json.loads rejects (JSONDecodeError): what a write that
\* was cut short leaves, alone or run together with the line appended after it
Malformed == [malformed |-> TRUE]
Rejected(line) == "malformed" \in DOMAIN line

\* a loader that gives up the log at the first line json.loads rejects
RECURSIVE LoadSessionLinesUntilMalformed(_, _)
LoadSessionLinesUntilMalformed(lines, processed) ==
    IF lines = <<>> \/ Rejected(Head(lines)) THEN <<>>
    ELSE LET rec == Head(lines)
             date_key == Get(rec, "date", "")
         IN  (IF date_key \in processed THEN Get(rec, "sessions", EmptyList) ELSE <<>>)
             \o LoadSessionLinesUntilMalformed(Tail(lines), processed)

\* a loader that compares the date part of a line's key with the processed dates
RECURSIVE LoadSessionLinesByDate(_, _)
LoadSessionLinesByDate(lines, processed) ==
    IF lines = <<>> THEN <<>>
    ELSE LET rec == Head(lines)
             date_key == Get(rec, "date", "")
         IN  (IF \E d \in processed : DateKeyFull(d) = date_key
              THEN Get(rec, "sessions", EmptyList) ELSE <<>>)
             \o LoadSessionLinesByDate(Tail(lines), processed)

RECURSIVE LoadSessionLines(_, _)
LoadSessionLines(lines, processed) ==
    IF lines = <<>> THEN <<>>
    ELSE LET rec == Head(lines)
             date_key == Get(rec, "date", "")
         IN  (IF ~Rejected(rec) /\ date_key \in processed
              THEN Get(rec, "sessions", EmptyList) ELSE <<>>)
             \o LoadSessionLines(Tail(lines), processed)

RECURSIVE LoadPlayerLines(_, _, _)
LoadPlayerLines(lines, processed, acc) ==
    IF lines = <<>> THEN acc
    ELSE LET rec == Head(lines)
             date_key == Get(rec, "date", "")
         IN  LoadPlayerLines(Tail(lines), processed,
                 IF ~Rejected(rec) /\ date_key \in processed
                 THEN (date_key :> Get(rec, "players", EmptyList)) @@ acc
                 ELSE acc)

\* a comparison that looks at the start of the range alone
RangeMatchesStartOnly(checkpoint, range_start, range_end) ==
    Get(checkpoint, "range_start", "") = DateStr(range_start)

RangeMatches(checkpoint, range_start, range_end) ==
    /\ Get(checkpoint, "range_start", "") = DateStr(range_start)
    /\ Get(checkpoint, "range_end", "") = DateStr(range_end)

EmptyProgress == [processed_dates |-> {}, all_sessions |-> EmptyList,
                  all_player_details |-> EmptyDict]

load_incremental_progress(range_start, range_end, cp, ps, pp) ==
    LET checkpoint == safe_read_json(cp, EmptyDict)
        processed ==
            IF DOMAIN checkpoint # {} /\ RangeMatches(checkpoint, range_start, range_end)
            THEN Range(Get(checkpoint, "processed_dates", EmptyList))
            ELSE {}
    IN  IF DOMAIN checkpoint # {} /\ ~RangeMatches(checkpoint, range_start, range_end)
        THEN EmptyProgress
        ELSE [processed_dates |-> processed,
              all_sessions |->
                  IF processed # {} /\ ps.exists
                  THEN LoadSessionLines(ps.content, processed) ELSE EmptyList,
              all_player_details |->
                  IF processed # {} /\ pp.exists
                  THEN LoadPlayerLines(pp.content, processed, EmptyDict) ELSE EmptyDict]

\* open(path, 'a') then write one line; a failed write leaves the file as it was
AppendLine(file, line, fails) ==
    IF fails THEN file
    ELSE File((IF file.exists THEN file.content ELSE <<>>) \o <<line>>)

\* a checkpoint whose total counts the processed dates
update_checkpoint_counts_dates(range_start, range_end, processed, total_sessions, file, fails) ==
    IF fails THEN file
    ELSE File([range_start |-> DateStr(range_start),
               range_end |-> DateStr(range_end),
               processed_dates |-> processed,
               total_sessions |-> Len(processed)])

update_checkpoint(range_start, range_end, processed, total_sessions, file, fails) ==
    IF fails THEN file
    ELSE File([range_start |-> DateStr(range_start),
               range_end |-> DateStr(range_end),
               processed_dates |-> processed,
               total_sessions |-> total_sessions])

-----------------------------------------------------------------------------
(* Range planner *)

\* a planner whose hourly periods are half an hour long
DeltaHalfHour(period_type) ==
    IF period_type = "day" THEN SecondsPerDay ELSE SecondsPerHour \div 2

Delta(period_type) == IF period_type = "day" THEN SecondsPerDay ELSE SecondsPerHour

RECURSIVE DateRangesFrom(_, _, _)
DateRangesFrom(current, end, delta) ==
    IF current <= end
    THEN LET period_end == Min(current + delta - 1, end)
         IN  <<<<current, period_end>>>> \o DateRangesFrom(period_end + 1, end, delta)
    ELSE <<>>

get_date_ranges(start, end, period_type) == DateRangesFrom(start, end, Delta(period_type))

-----------------------------------------------------------------------------
(* Remote calls *)

\* a get_full_sessions without its try/except
get_full_sessions_uncaught(outcome) ==
    IF outcome.raised THEN Escaped
    ELSE Some(IF outcome.value # EmptyList THEN outcome.value ELSE EmptyList)

\* get_full_sessions: [] for a falsy body, None when client.post raised
get_full_sessions(outcome) ==
    IF outcome.raised THEN None
    ELSE Some(IF outcome.value # EmptyList THEN outcome.value ELSE EmptyList)

\* get_player_details: [] for a falsy body and when client.post raised
get_player_details(outcome) ==
    IF outcome.raised THEN EmptyList
    ELSE IF outcome.value # EmptyList THEN outcome.value ELSE EmptyList

SessionRequest(phase, s, e) ==
    [op |-> "getFullSessionsByDateRange", phase |-> phase,
     sessionStartDate |-> s, sessionEndDate |-> e, timeout |-> timeout]

PlayerRequest(session_date) == [op |-> "getPlayerDetails", sessionDate |-> session_date]

\* a pass that merges the records two by two
RECURSIVE DedupPairs(_)
DedupPairs(sessions) ==
    IF Len(sessions) < 2 THEN sessions
    ELSE (IF JsonDumpsSorted(Get(sessions[1], "sessionDetails", EmptyDict))
               = JsonDumpsSorted(Get(sessions[2], "sessionDetails", EmptyDict))
          THEN <<sessions[1]>> ELSE <<sessions[1], sessions[2]>>)
         \o DedupPairs(Tail(Tail(sessions)))

\* the per-day deduplication of extract_all_data_directly
\* a signature that is the whole record
SignatureWholeRecord(s) == s

\* a signature that tells the records without sessionDetails apart
SignatureOrId(s) ==
    IF "sessionDetails" \in DOMAIN s THEN JsonDumpsSorted(s.sessionDetails)
    ELSE <<<<"id", s.id>>>>

Signature(s) == JsonDumpsSorted(Get(s, "sessionDetails", EmptyDict))

RECURSIVE DedupFrom(_, _, _)
DedupFrom(sessions, seen, dedup) ==
    IF sessions = <<>> THEN dedup
    ELSE LET s == Head(sessions)
             sig == Signature(s)
         IN  IF sig \notin seen
             THEN DedupFrom(Tail(sessions), seen \cup {sig}, Append(dedup, s))
             ELSE DedupFrom(Tail(sessions), seen, dedup)

Dedup(sessions) == IF sessions # EmptyList THEN DedupFrom(sessions, {}, <<>>) ELSE sessions

-----------------------------------------------------------------------------
(* Cross-run merges: update_mason_mount.py and combine_runs.py *)

\* a pandas DataFrame: its columns and its rows, each row a dict over the columns
Frame(columns, rows) == [columns |-> columns, rows |-> rows]
NoFrame == Frame({}, <<>>)

NaN == "NaN"

\* df[col] = value
SetColumn(frame, col, value) ==
    [columns |-> frame.columns \cup {col},
     rows |-> [n \in DOMAIN frame.rows |->
                  [c \in frame.columns \cup {col} |->
                      IF c = col THEN value ELSE frame.rows[n][c]]]]

\* pd.concat([a, b], ignore_index=True)
ConcatFrames(a, b) ==
    LET cols == a.columns \cup b.columns
        Fill(row) == [c \in cols |-> IF c \in DOMAIN row THEN row[c] ELSE NaN]
    IN  [columns |-> cols,
         rows |-> [n \in 1..(Len(a.rows) + Len(b.rows)) |->
                      Fill(IF n <= Len(a.rows) THEN a.rows[n]
                           ELSE b.rows[n - Len(a.rows)])]]

DuplicateCols == {"session_date", "drill_id", "player_custom_id"}

\* a choice of key that needs all three columns
AvailableColsAllOrNone(columns) ==
    IF DuplicateCols \subseteq columns THEN DuplicateCols ELSE {}

AvailableCols(columns) == DuplicateCols \cap columns

KeyOf(row, cols) == [c \in cols |-> row[c]]

Reverse(seq) == [n \in DOMAIN seq |-> seq[Len(seq) + 1 - n]]

\* the rows at the positions of a set, in the order of the positions
RowsAt(rows, positions) ==
    [k \in 1..Cardinality(positions) |->
        rows[CHOOSE n \in positions : Cardinality({m \in positions : m <= n}) = k]]

\* a drop_duplicates with keep='last'
drop_duplicates_keep_last(rows, cols) ==
    RowsAt(rows, {n \in DOMAIN rows :
                     \A m \in (n + 1)..Len(rows) : KeyOf(rows[m], cols) # KeyOf(rows[n], cols)})

\* df.drop_duplicates(subset=cols, keep='first'): a row stays when no row before
\* it has its values in cols
drop_duplicates(rows, cols) ==
    RowsAt(rows, {n \in DOMAIN rows :
                     \A m \in 1..(n - 1) : KeyOf(rows[m], cols) # KeyOf(rows[n], cols)})

Remove(seq, n) == SubSeq(seq, 1, n - 1) \o SubSeq(seq, n + 1, Len(seq))

RECURSIVE Orderings(_)
Orderings(rows) ==
    IF rows = <<>> THEN {<<>>}
    ELSE UNION {{<<rows[n]>> \o rest : rest \in Orderings(Remove(rows, n))} :
                n \in DOMAIN rows}

\* the sorted orders of the rows whose value in col is in lo..hi
RECURSIVE SortedBetween(_, _, _, _)
SortedBetween(rows, col, lo, hi) ==
    IF lo > hi THEN {<<>>}
    ELSE IF lo = hi THEN Orderings(SelectSeq(rows, LAMBDA r : r[col] = lo))
    ELSE LET mid == (lo + hi) \div 2
         IN  {low \o high : low \in SortedBetween(rows, col, lo, mid),
                            high \in SortedBetween(rows, col, mid + 1, hi)}

\* df.sort_values(col): the default sort is not stable, rows with equal values
\* come out in any order
SortedOrders(rows, col) ==
    IF rows = <<>> THEN {<<>>}
    ELSE LET values == {rows[n][col] : n \in DOMAIN rows}
             lo == CHOOSE v \in values : \A w \in values : v <= w
             hi == CHOOSE v \in values : \A w \in values : w <= v
         IN  SortedBetween(rows, col, lo, hi)

\* combine_and_deduplicate: the frames it can return
combine_and_deduplicate(existing, new, source_run) ==
    LET tagged_existing == IF "source_run" \notin existing.columns
                           THEN SetColumn(existing, "source_run", "existing")
                           ELSE existing
        tagged_new == SetColumn(new, "source_run", source_run)
        combined == ConcatFrames(tagged_existing, tagged_new)
        available_cols == AvailableCols(combined.columns)
        unique == IF available_cols # {}
                  THEN drop_duplicates(combined.rows, available_cols)
                  ELSE combined.rows
    IN  IF "session_date" \in combined.columns
        THEN {Frame(combined.columns, sorted) : sorted \in SortedOrders(unique, "session_date")}
        ELSE {Frame(combined.columns, unique)}

\* load_and_combine_csvs: each file's rows tagged with its run, then one frame
RECURSIVE ConcatAll(_)
ConcatAll(tagged) ==
    IF Len(tagged) = 1 THEN Head(tagged)
    ELSE ConcatFrames(Head(tagged), ConcatAll(Tail(tagged)))

load_and_combine_csvs(csv_files) ==
    ConcatAll([n \in DOMAIN csv_files |->
                  SetColumn(csv_files[n].frame, "source_run", csv_files[n].run_dir)])

\* remove_duplicate_sessions: on the key columns the frame has, on all its
\* columns when it has none of them
remove_duplicate_sessions(df) ==
    LET available_cols == AvailableCols(df.columns)
    IN  IF available_cols = {}
        THEN Frame(df.columns, drop_duplicates(df.rows, df.columns))
        ELSE Frame(df.columns, drop_duplicates(df.rows, available_cols))

-----------------------------------------------------------------------------
(* State *)

NoResult == [called |-> FALSE]
Result(r) == [called |-> TRUE, result |-> r]

NoFrames ==
    /\ existing_df = NoFrame
    /\ new_df = NoFrame
    /\ all_dataframes = <<>>
    /\ combined_df = NoFrame
    /\ deduplicated_df = NoFrame

\* no function is being studied on its own
InitPure ==
    /\ planner_period_type = "day"
    /\ ranges = <<>>
    /\ day_dedup = <<>>
    /\ NoFrames

\* the locals other than the arguments
InitFrames ==
    /\ processed_dates = {}
    /\ all_sessions = EmptyList
    /\ all_player_details = EmptyDict
    /\ daily_ranges = <<>>
    /\ i = 1
    /\ day_sessions = EmptyList
    /\ player_details_for_day = EmptyList
    /\ processed_at_start = {}
    /\ hourly_ranges = <<>>
    /\ h = 1
    /\ all_day_sessions = EmptyList
    /\ full_result = NoResult
    /\ probe_result = NoResult
    /\ hour_kinds = {}
    /\ timeout = StandardTimeout
    /\ events = <<>>

InitLocals ==
    /\ start_date = 0
    /\ end_date = 0
    /\ InitFrames

\* no invocation yet, no run directory
InitLife ==
    /\ utcnow = 0
    /\ run_ids = <<>>
    /\ sessions_json = EmptyDict
    /\ players_json = EmptyDict
    /\ csv_file = EmptyDict

\* no post under way
InitHttp ==
    /\ retry = DefaultRetry
    /\ attempt = 0
    /\ responses = <<>>
    /\ post_state = "not_called"

\* no upload under way
InitOneDrive ==
    /\ upload_state = "not_called"
    /\ upload_result = "none"
    /\ upload_attempts = 0
    /\ upload_log = <<>>

InitCalls == InitHttp /\ InitOneDrive

InitStore ==
    /\ invocations = 0
    /\ io_failures = 0
    /\ checkpoint_file = NoFile
    /\ progress_sessions = NoFile
    /\ progress_players = NoFile
    /\ InitLife
    /\ InitCalls

Init ==
    /\ pc = "idle"
    /\ invocations = 0
    /\ io_failures = 0
    /\ checkpoint_file = NoFile
    /\ progress_sessions = NoFile
    /\ progress_players = NoFile
    /\ InitLife
    /\ InitCalls
    /\ InitLocals
    /\ InitPure

CliDates == 0..(NumDays - 1)

day_start == daily_ranges[i][1]
day_end == daily_ranges[i][2]
date_str == DateStr(day_start)
date_key_full == DateKeyFull(date_str)

\* a local of extract_day_with_smart_fallback goes out of scope when it returns
ExtractorReturns ==
    /\ hourly_ranges' = <<>>
    /\ h' = 1
    /\ all_day_sessions' = EmptyList

-----------------------------------------------------------------------------
(* main, up to the call of extract_all_data_directly *)

\* open(path, 'w').close(): the file is left empty
Truncate(file) == File(<<>>)

\* open(path, 'a').close()
Touch(file) == IF file.exists THEN file ELSE File(<<>>)

\* the command-line arguments: the dates of the model and one that is no date
BadDate == "2024-02-30"
Argv == {DateStr(d * SecondsPerDay) : d \in CliDates} \cup {BadDate}

\* datetime.strptime(s, "%Y-%m-%d") returns
ValidDate(s) == \E d \in 0..(NumDays + 1) : DateStr(d * SecondsPerDay) = s

\* run_id = utcnow().strftime('%Y%m%d_%H%M%S'): runs/<run_id> is a directory
\* nobody made before unless an earlier invocation read the same second
RunDirIsNew == \A n \in DOMAIN run_ids : run_ids[n] # utcnow

\* a file of runs/<run_id> as this invocation finds it
InRunDir(file) == IF RunDirIsNew THEN NoFile ELSE file
ArtifactsInRunDir(files) == IF RunDirIsNew THEN EmptyDict ELSE files

\* lines 436-446: the run directory and its progress files
Initialize(S, E) ==
    /\ run_ids' = Append(run_ids, utcnow)
    /\ progress_sessions' = Touch(InRunDir(progress_sessions))
    /\ progress_players' = Touch(InRunDir(progress_players))
    /\ checkpoint_file' = update_checkpoint(S * SecondsPerDay, E * SecondsPerDay,
                                            <<>>, 0, InRunDir(checkpoint_file), FALSE)
    /\ sessions_json' = ArtifactsInRunDir(sessions_json)
    /\ players_json' = ArtifactsInRunDir(players_json)
    /\ csv_file' = ArtifactsInRunDir(csv_file)

\* lines 422-456 on two dates in order, the API key set
Main(S, E) ==
    /\ pc = "idle"
    /\ S <= E
    /\ pc' = "start"
    /\ invocations' = invocations + 1
    /\ start_date' = S * SecondsPerDay
    /\ end_date' = E * SecondsPerDay
    /\ Initialize(S, E)
    /\ UNCHANGED <<calls, pure, utcnow, io_failures, orch, extr, hist, timeout, events>>

\* lines 422-434: sys.exit(1) on an argument that is no date, or on an end date
\* before the start date
MainUsage(argv1, argv2) ==
    /\ pc = "idle"
    /\ IF ValidDate(argv1) /\ ValidDate(argv2)
       THEN ParseDate(argv2) < ParseDate(argv1)
       ELSE TRUE
    /\ pc' = "exit"
    /\ invocations' = invocations + 1
    /\ UNCHANGED <<calls, pure, life, io_failures, disk, args, orch, extr, hist, timeout, events>>

\* lines 422-456 without STATSPORTS_API_KEY: StatsportsClient() raises ValueError,
\* which main does not catch
MainWithoutApiKey(S, E) ==
    /\ pc = "idle"
    /\ S <= E
    /\ pc' = "value_error"
    /\ invocations' = invocations + 1
    /\ Initialize(S, E)
    /\ UNCHANGED <<calls, pure, utcnow, io_failures, args, orch, extr, hist, timeout, events>>

\* where the process is no more (killed, main returned, an exception escaped)
Ended == {"crashed", "finished", "traceback", "value_error"}

\* where extract_all_data_directly is not running, or no longer
Stopped == Ended \cup {"done"}

\* main started again after the process before it has stopped
MainAgain(S, E) ==
    /\ pc \in Ended
    /\ invocations < MaxInvocations
    /\ S <= E
    /\ pc' = "start"
    /\ invocations' = invocations + 1
    /\ start_date' = S * SecondsPerDay
    /\ end_date' = E * SecondsPerDay
    /\ Initialize(S, E)
    /\ UNCHANGED <<calls, pure, utcnow, io_failures, orch, extr, hist, timeout, events>>

\* a second goes by; the clock is read when main starts and only then
Tick ==
    /\ pc \in Ended \cup {"idle"}
    /\ utcnow < MaxSeconds
    /\ utcnow' = utcnow + 1
    /\ UNCHANGED <<calls, pure, pc, invocations, io_failures, disk, args, orch, extr, hist, timeout,
                   events, run_ids, artifacts>>

\* extract_all_data_directly called again on the run directory of a stopped run
Resume(S, E) ==
    /\ pc \in Stopped
    /\ invocations < MaxInvocations
    /\ S <= E
    /\ pc' = "start"
    /\ invocations' = invocations + 1
    /\ start_date' = S * SecondsPerDay
    /\ end_date' = E * SecondsPerDay
    /\ UNCHANGED <<calls, pure, life, io_failures, disk, orch, extr, hist, timeout, events>>

-----------------------------------------------------------------------------
(* extract_all_data_directly *)

Load ==
    /\ pc = "start"
    /\ LET loaded == load_incremental_progress(start_date, end_date, checkpoint_file,
                                               progress_sessions, progress_players)
       IN  /\ processed_dates' = loaded.processed_dates
           /\ processed_at_start' = loaded.processed_dates
           /\ all_sessions' = IF loaded.processed_dates # {}
                              THEN loaded.all_sessions ELSE EmptyList
           /\ all_player_details' = IF loaded.processed_dates # {}
                                    THEN loaded.all_player_details ELSE EmptyDict
    /\ daily_ranges' = get_date_ranges(start_date, end_date, "day")
    /\ i' = 1
    /\ day_sessions' = EmptyList
    /\ player_details_for_day' = EmptyList
    /\ events' = <<>>
    /\ pc' = "loop"
    /\ UNCHANGED <<calls, pure, life, invocations, io_failures, disk, args, extr, hist, timeout>>

\* a loop that skips nothing
AlreadyProcessedNever(d, processed) == FALSE

AlreadyProcessed(d, processed) == d \in processed

\* the loop is exhausted: return all_sessions, all_player_details
LoopExit ==
    /\ pc = "loop"
    /\ i > Len(daily_ranges)
    /\ pc' = "done"
    /\ UNCHANGED <<calls, pure, life, invocations, io_failures, disk, args, orch, extr, hist, timeout, events>>

SkipDay ==
    /\ pc = "loop"
    /\ i <= Len(daily_ranges)
    /\ AlreadyProcessed(date_str, processed_dates)
    /\ i' = i + 1
    /\ UNCHANGED <<calls, pure, life, pc, invocations, io_failures, disk, args, processed_dates, all_sessions,
                   all_player_details, daily_ranges, day_sessions, player_details_for_day,
                   processed_at_start, extr, hist, timeout, events>>

BeginDay ==
    /\ pc = "loop"
    /\ i <= Len(daily_ranges)
    /\ ~AlreadyProcessed(date_str, processed_dates)
    /\ pc' = "full_day"
    /\ day_sessions' = EmptyList
    /\ player_details_for_day' = EmptyList
    /\ events' = <<>>
    /\ full_result' = NoResult
    /\ probe_result' = NoResult
    /\ hour_kinds' = {}
    /\ UNCHANGED <<calls, pure, life, invocations, io_failures, disk, args, processed_dates, all_sessions,
                   all_player_details, daily_ranges, i, processed_at_start, extr, timeout>>

-----------------------------------------------------------------------------
(* extract_day_with_smart_fallback *)

\* an extractor that probes after an empty full-day answer too
AfterFullDayProbeOnEmpty(r) ==
    IF r.escaped THEN "aborted"
    ELSE IF ~r.none /\ Len(r.value) > 0 THEN "success"
    ELSE "probe"

\* where the extractor goes after the full-day call
AfterFullDay(r) ==
    IF r.escaped THEN "aborted"
    ELSE IF ~r.none /\ Len(r.value) > 0 THEN "success"
    ELSE IF ~r.none /\ Len(r.value) = 0 THEN "empty"
    ELSE "probe"

FullDay(outcome) ==
    /\ pc = "full_day"
    /\ LET r == get_full_sessions(outcome)
           next == AfterFullDay(r)
       IN  /\ full_result' = Result(r)
           /\ events' = Append(events, SessionRequest("full_day", day_start, day_end))
           /\ pc' = IF next \in {"success", "empty"} THEN "dedup" ELSE next
           /\ day_sessions' = IF next = "success" THEN r.value ELSE EmptyList
    /\ UNCHANGED <<calls, pure, life, invocations, io_failures, disk, args, processed_dates, all_sessions,
                   all_player_details, daily_ranges, i, player_details_for_day,
                   processed_at_start, extr, probe_result, hour_kinds, timeout>>

\* a probe that leaves the discovery timeout on the client
HasDataForDayKeepsTimeout(d, outcome, original_timeout) ==
    LET probe_start == ParseDate(d)
        probe_end == ParseDate(d) + (23 * 3600 + 59 * 60 + 59)
        response == get_full_sessions(outcome)
    IN  [has_data |-> ~response.escaped /\ ~response.none /\ Len(response.value) > 0,
         response |-> response,
         request |-> [op |-> "getFullSessionsByDateRange", phase |-> "probe",
                      sessionStartDate |-> probe_start, sessionEndDate |-> probe_end,
                      timeout |-> DiscoveryTimeout],
         timeout |-> DiscoveryTimeout]

\* has_data_for_day: the value it returns, the request it sends, client.timeout after it
\* a probe that takes every answer, an empty one too, for data
HasDataNotNone(r) == ~r.escaped /\ ~r.none

HasData(r) == ~r.escaped /\ ~r.none /\ Len(r.value) > 0

has_data_for_day(d, outcome, original_timeout) ==
    LET probe_start == ParseDate(d)
        probe_end == ParseDate(d) + (23 * 3600 + 59 * 60 + 59)
        response == get_full_sessions(outcome)
    IN  [has_data |-> HasData(response),
         response |-> response,
         request |-> [SessionRequest("probe", probe_start, probe_end)
                         EXCEPT !.timeout = DiscoveryTimeout],
         timeout |-> original_timeout]

Probe(outcome) ==
    /\ pc = "probe"
    /\ LET probe == has_data_for_day(date_str, outcome, timeout)
       IN  /\ probe_result' = Result(probe.response)
           /\ events' = Append(events, probe.request)
           /\ timeout' = probe.timeout
           /\ IF probe.has_data
              THEN /\ pc' = "hourly"
                   /\ hourly_ranges' = get_date_ranges(day_start, day_end, "hour")
                   /\ all_day_sessions' = EmptyList
                   /\ h' = 1
              ELSE /\ pc' = "dedup"
                   /\ UNCHANGED <<hourly_ranges, all_day_sessions, h>>
    /\ UNCHANGED <<calls, pure, life, invocations, io_failures, disk, args, orch, full_result, hour_kinds>>

\* what one hourly answer adds to all_day_sessions
HourContribution(r) ==
    IF ~r.escaped /\ ~r.none /\ Len(r.value) > 0 THEN r.value ELSE EmptyList

\* the kind of answer an hourly call got
Kind(r) ==
    IF r.escaped THEN "escaped"
    ELSE IF r.none THEN "failed"
    ELSE IF Len(r.value) > 0 THEN "data" ELSE "empty"

\* a sweep that a failed hour ends
AfterHourAbortOnFailure(r, n) ==
    IF Kind(r) = "failed" THEN Len(hourly_ranges) + 1 ELSE n + 1

\* the index of the next hourly range to request
AfterHour(r, n) == n + 1

Hourly(outcome) ==
    /\ pc = "hourly"
    /\ h <= Len(hourly_ranges)
    /\ ~outcome.raised => Len(all_day_sessions) + Len(outcome.value) <= MaxSweepLen
    /\ LET r == get_full_sessions(outcome)
       IN  /\ events' = Append(events, SessionRequest("hourly", hourly_ranges[h][1],
                                                      hourly_ranges[h][2]))
           /\ all_day_sessions' = all_day_sessions \o HourContribution(r)
           /\ h' = AfterHour(r, h)
           /\ hour_kinds' = hour_kinds \cup {Kind(r)}
    /\ UNCHANGED <<calls, pure, life, pc, invocations, io_failures, disk, args, orch, hourly_ranges,
                   full_result, probe_result, timeout>>

\* the sweep is over: return all_day_sessions
HourlyDone ==
    /\ pc = "hourly"
    /\ h > Len(hourly_ranges)
    /\ pc' = "dedup"
    /\ day_sessions' = all_day_sessions
    /\ ExtractorReturns
    /\ UNCHANGED <<calls, pure, life, invocations, io_failures, disk, args, processed_dates, all_sessions,
                   all_player_details, daily_ranges, i, player_details_for_day,
                   processed_at_start, hist, timeout, events>>

\* the whole sweep in one step, the hourly answers given as a list
RECURSIVE SweepFrom(_, _, _, _)
SweepFrom(hours, script, n, acc) ==
    IF n > Len(hours) THEN acc
    ELSE LET r == get_full_sessions(script[n])
         IN  SweepFrom(hours, script, AfterHour(r, n), acc \o HourContribution(r))

\* the answers of a sweep over n hours: data in the first hour or the last, or in
\* both or none, the other hours all empty or all failing
SweepScripts(n) ==
    {[k \in 1..n |-> IF k \in hits THEN Returned(<<SessionA, SessionA2>>) ELSE quiet] :
        hits \in SUBSET {1, n}, quiet \in {Raised, Returned(EmptyList)}}

Sweep(script) ==
    /\ pc = "hourly"
    /\ h = 1
    /\ pc' = "dedup"
    /\ day_sessions' = SweepFrom(hourly_ranges, script, h, all_day_sessions)
    /\ events' = events \o [k \in 1..Len(hourly_ranges) |->
                                SessionRequest("hourly", hourly_ranges[k][1],
                                               hourly_ranges[k][2])]
    /\ hour_kinds' = {Kind(get_full_sessions(script[k])) : k \in 1..Len(hourly_ranges)}
    /\ ExtractorReturns
    /\ UNCHANGED <<calls, pure, life, invocations, io_failures, disk, args, processed_dates, all_sessions,
                   all_player_details, daily_ranges, i, player_details_for_day,
                   processed_at_start, full_result, probe_result, timeout>>

-----------------------------------------------------------------------------
(* extract_all_data_directly, after the day's extraction *)

\* deduplicate, fetch the player details if there are sessions, merge
DedupAndPlayers(outcome) ==
    /\ pc = "dedup"
    /\ LET dedup == Dedup(day_sessions)
           player_details == get_player_details(outcome)
       IN  /\ day_sessions' = dedup
           /\ IF dedup # EmptyList
              THEN /\ events' = Append(events, PlayerRequest(date_key_full))
                   /\ IF player_details # EmptyList
                      THEN /\ player_details_for_day' = player_details
                           /\ all_player_details' =
                                  (date_key_full :> player_details) @@ all_player_details
                      ELSE UNCHANGED <<player_details_for_day, all_player_details>>
                   /\ all_sessions' = all_sessions \o dedup
              ELSE /\ outcome = Raised
                   /\ UNCHANGED <<events, player_details_for_day, all_player_details,
                                  all_sessions>>
    /\ pc' = "persist"
    /\ UNCHANGED <<calls, pure, life, invocations, io_failures, disk, args, processed_dates, daily_ranges, i,
                   processed_at_start, extr, hist, timeout>>

append_day_progress(date_key, sessions, players, ps, pp, sessions_fail, players_fail) ==
    [progress_sessions |->
         AppendLine(ps, [date |-> date_key, sessions |-> sessions], sessions_fail),
     progress_players |->
         AppendLine(pp, [date |-> date_key, players |-> players], players_fail)]

Failures(flags) == Cardinality({n \in DOMAIN flags : flags[n]})

\* an append whose failure is not caught: the exception ends the run
AppendDayUncaught(sessions_fail, players_fail) ==
    /\ pc = "persist"
    /\ io_failures + Failures(<<sessions_fail, players_fail>>) <= MaxIOFailures
    /\ LET written == append_day_progress(date_key_full, day_sessions,
                                          player_details_for_day, progress_sessions,
                                          progress_players, sessions_fail,
                                          sessions_fail \/ players_fail)
       IN  /\ progress_sessions' = written.progress_sessions
           /\ progress_players' = written.progress_players
    /\ io_failures' = io_failures + Failures(<<sessions_fail, players_fail>>)
    /\ events' = Append(events, [op |-> "append_day_progress", date |-> date_key_full])
    /\ pc' = IF sessions_fail \/ players_fail THEN "aborted" ELSE "checkpoint"
    /\ UNCHANGED <<calls, pure, life, invocations, checkpoint_file, args, orch, extr, hist, timeout>>

AppendDay(sessions_fail, players_fail) ==
    /\ pc = "persist"
    /\ io_failures + Failures(<<sessions_fail, players_fail>>) <= MaxIOFailures
    /\ LET written == append_day_progress(date_key_full, day_sessions,
                                          player_details_for_day, progress_sessions,
                                          progress_players, sessions_fail, players_fail)
       IN  /\ progress_sessions' = written.progress_sessions
           /\ progress_players' = written.progress_players
    /\ io_failures' = io_failures + Failures(<<sessions_fail, players_fail>>)
    /\ events' = Append(events, [op |-> "append_day_progress", date |-> date_key_full])
    /\ pc' = "checkpoint"
    /\ UNCHANGED <<calls, pure, life, invocations, checkpoint_file, args, orch, extr, hist, timeout>>

\* processed_dates.add(date_str), update_checkpoint, next iteration
UpdateCheckpoint(fails) ==
    /\ pc = "checkpoint"
    /\ io_failures + Failures(<<fails>>) <= MaxIOFailures
    /\ processed_dates' = processed_dates \cup {date_str}
    /\ checkpoint_file' = update_checkpoint(start_date, end_date, Sorted(processed_dates'),
                                            Len(all_sessions), checkpoint_file, fails)
    /\ io_failures' = io_failures + Failures(<<fails>>)
    /\ events' = Append(events, [op |-> "update_checkpoint",
                                 processed_dates |-> Sorted(processed_dates')])
    /\ i' = i + 1
    /\ pc' = "loop"
    /\ UNCHANGED <<calls, pure, life, invocations, progress_sessions, progress_players, args, all_sessions,
                   all_player_details, daily_ranges, day_sessions, player_details_for_day,
                   processed_at_start, extr, hist, timeout>>

-----------------------------------------------------------------------------
(* The process stops (killed, power loss): its memory is lost, the files stay *)

Running == {"start", "loop", "full_day", "probe", "hourly", "dedup", "persist", "checkpoint",
            "csv", "cleanup"}

\* the locals of a process that is no more
Forgotten ==
    /\ start_date' = 0
    /\ end_date' = 0
    /\ processed_dates' = {}
    /\ all_sessions' = EmptyList
    /\ all_player_details' = EmptyDict
    /\ daily_ranges' = <<>>
    /\ i' = 1
    /\ day_sessions' = EmptyList
    /\ player_details_for_day' = EmptyList
    /\ processed_at_start' = {}
    /\ hourly_ranges' = <<>>
    /\ h' = 1
    /\ all_day_sessions' = EmptyList
    /\ full_result' = NoResult
    /\ probe_result' = NoResult
    /\ hour_kinds' = {}
    /\ timeout' = StandardTimeout
    /\ events' = <<>>

LoseMemory ==
    /\ pc' = "crashed"
    /\ Forgotten

Crash ==
    /\ pc \in Running
    /\ invocations < MaxInvocations
    /\ LoseMemory
    /\ UNCHANGED <<calls, pure, life, invocations, io_failures, disk>>

\* the process stops inside update_checkpoint, after open(checkpoint_path, 'w')
\* has truncated the file and before json.dump has written all of the document
CrashInCheckpoint ==
    /\ pc = "checkpoint"
    /\ invocations < MaxInvocations
    /\ checkpoint_file' = File(Partial)
    /\ LoseMemory
    /\ UNCHANGED <<calls, pure, life, invocations, io_failures, progress_sessions, progress_players>>

-----------------------------------------------------------------------------
(* main, after extract_all_data_directly has returned *)

\* the part of the artifacts' names that tells the range: <start>_<end>
ArtifactName == DateStr(start_date) \o "_" \o DateStr(end_date)

\* open(path, 'w') then json.dump or to_csv
WriteArtifact(files, name, content) == (name :> content) @@ files

\* lines 461-472: both JSON snapshots in one try; the first write that raises
\* ends the block, and the except clause only prints a warning
WriteJson(failed_at) ==
    /\ pc = "done"
    /\ io_failures + Failures(<<failed_at # "none">>) <= MaxIOFailures
    /\ sessions_json' = IF failed_at = "sessions" THEN sessions_json
                        ELSE WriteArtifact(sessions_json, ArtifactName, all_sessions)
    /\ players_json' = IF failed_at \in {"sessions", "players"} THEN players_json
                       ELSE WriteArtifact(players_json, ArtifactName, all_player_details)
    /\ io_failures' = io_failures + Failures(<<failed_at # "none">>)
    /\ pc' = "csv"
    /\ UNCHANGED <<calls, pure, clock, csv_file, invocations, disk, args, orch, extr, hist, timeout,
                   events>>

\* lines 474-479: flatten_to_csv and df.to_csv, outside any try; the rows of the
\* CSV are not followed, the entry tells what they were made from
WriteCsv(fails) ==
    /\ pc = "csv"
    /\ io_failures + Failures(<<fails>>) <= MaxIOFailures
    /\ csv_file' = IF fails THEN csv_file
                   ELSE WriteArtifact(csv_file, ArtifactName,
                                      [sessions |-> all_sessions,
                                       players |-> all_player_details])
    /\ io_failures' = io_failures + Failures(<<fails>>)
    /\ IF fails
       THEN /\ pc' = "traceback"
            /\ Forgotten
       ELSE /\ pc' = "cleanup"
            /\ UNCHANGED <<args, orch, extr, hist, timeout, events>>
    /\ UNCHANGED <<calls, pure, clock, sessions_json, players_json, invocations, disk>>

\* os.remove when os.path.exists
RemoveFile(file) == NoFile

\* lines 483-493: both progress logs removed in one try; main returns
Cleanup(failed_at) ==
    /\ pc = "cleanup"
    /\ io_failures + Failures(<<failed_at # "none">>) <= MaxIOFailures
    /\ progress_sessions' = IF failed_at = "sessions" THEN progress_sessions
                            ELSE RemoveFile(progress_sessions)
    /\ progress_players' = IF failed_at \in {"sessions", "players"} THEN progress_players
                           ELSE RemoveFile(progress_players)
    /\ io_failures' = io_failures + Failures(<<failed_at # "none">>)
    /\ pc' = "finished"
    /\ Forgotten
    /\ UNCHANGED <<calls, pure, life, invocations, checkpoint_file>>

-----------------------------------------------------------------------------

Next ==
    \/ \E E \in CliDates : Main(0, E)
    \/ \E E \in CliDates : Resume(0, E)
    \/ Load
    \/ LoopExit
    \/ SkipDay
    \/ BeginDay
    \/ \E outcome \in PostOutcomes(RunResponses) : FullDay(outcome)
    \/ \E outcome \in PostOutcomes(RunResponses) : Probe(outcome)
    \/ \E script \in SweepScripts(Len(hourly_ranges)) : Sweep(script)
    \/ \E outcome \in PostOutcomes(PlayerResponses) : DedupAndPlayers(outcome)
    \/ AppendDay(FALSE, FALSE)
    \/ UpdateCheckpoint(FALSE)
    \/ Crash

\* runs that are stopped and resumed on one run directory, every write succeeding
Spec == Init /\ [][Next]_vars

NextTorn ==
    \/ \E E \in CliDates : Main(0, E)
    \/ \E E \in CliDates : Resume(0, E)
    \/ Load
    \/ LoopExit
    \/ SkipDay
    \/ BeginDay
    \/ \E outcome \in PostOutcomes(RunResponses) : FullDay(outcome)
    \/ \E outcome \in PostOutcomes(RunResponses) : Probe(outcome)
    \/ \E script \in SweepScripts(Len(hourly_ranges)) : Sweep(script)
    \/ \E outcome \in PostOutcomes(PlayerResponses) : DedupAndPlayers(outcome)
    \/ AppendDay(FALSE, FALSE)
    \/ UpdateCheckpoint(FALSE)
    \/ CrashInCheckpoint

\* runs that stop in the middle of a checkpoint write and are resumed
SpecTorn == Init /\ [][NextTorn]_vars

NextExtract ==
    \/ \E S, E \in CliDates : Main(S, E)
    \/ Load
    \/ LoopExit
    \/ BeginDay
    \/ \E outcome \in PostOutcomes(DayResponses) : FullDay(outcome)
    \/ \E outcome \in PostOutcomes(DayResponses) : Probe(outcome)
    \/ \E outcome \in PostOutcomes(DayResponses) : Hourly(outcome)
    \/ HourlyDone
    \/ \E outcome \in PostOutcomes(PlayerResponses) : DedupAndPlayers(outcome)
    \/ \E sessions_fail, players_fail \in BOOLEAN : AppendDay(sessions_fail, players_fail)
    \/ \E fails \in BOOLEAN : UpdateCheckpoint(fails)

\* one uninterrupted invocation of main, the day extractor followed request by
\* request, file writes failing
SpecExtract == Init /\ [][NextExtract]_vars

NextMain ==
    \/ NextExtract
    \/ \E argv1, argv2 \in Argv : MainUsage(argv1, argv2)
    \/ \E S, E \in CliDates : MainWithoutApiKey(S, E)
    \/ \E failed_at \in {"none", "sessions", "players"} : WriteJson(failed_at)
    \/ \E fails \in BOOLEAN : WriteCsv(fails)
    \/ \E failed_at \in {"none", "sessions", "players"} : Cleanup(failed_at)

\* one invocation of main from its arguments to its return, file writes failing
SpecMain == Init /\ [][NextMain]_vars

NextRuns ==
    \/ \E D \in CliDates : Main(D, D)
    \/ \E D \in CliDates : MainAgain(D, D)
    \/ \E D \in CliDates : Resume(D, D)
    \/ Tick
    \/ Load
    \/ LoopExit
    \/ SkipDay
    \/ BeginDay
    \/ \E outcome \in PostOutcomes(RunResponses) : FullDay(outcome)
    \/ \E outcome \in PostOutcomes(RunResponses) : Probe(outcome)
    \/ \E script \in SweepScripts(Len(hourly_ranges)) : Sweep(script)
    \/ \E outcome \in PostOutcomes(PlayerResponses) : DedupAndPlayers(outcome)
    \/ AppendDay(FALSE, FALSE)
    \/ UpdateCheckpoint(FALSE)
    \/ WriteJson("none")
    \/ WriteCsv(FALSE)
    \/ Cleanup("none")
    \/ Crash

\* invocations of main one after the other, each on a single date, stopped or
\* run to their end, and calls of extract_all_data_directly on the run directory
\* they leave
SpecRuns == Init /\ [][NextRuns]_vars

-----------------------------------------------------------------------------
(* get_date_ranges called on its own, on any two instants and either granularity *)

\* the times of day the arguments are drawn from
TimesOfDay == {0, 1, SecondsPerHour - 1, SecondsPerHour, 12 * SecondsPerHour,
               SecondsPerDay - 1}
Instants == {d * SecondsPerDay + t : d \in 0..(NumDays - 1), t \in TimesOfDay}

InitPlanner ==
    /\ pc = "get_date_ranges"
    /\ InitStore
    /\ InitFrames
    /\ start_date \in Instants
    /\ end_date \in Instants
    /\ start_date <= end_date
    /\ planner_period_type \in {"day", "hour"}
    /\ ranges = <<>>
    /\ day_dedup = <<>>
    /\ NoFrames

Plan ==
    /\ pc = "get_date_ranges"
    /\ ranges' = get_date_ranges(start_date, end_date, planner_period_type)
    /\ pc' = "returned"
    /\ UNCHANGED <<calls, life, invocations, io_failures, disk, args, orch, extr, hist, timeout, events,
                   planner_period_type, day_dedup, frames>>

NextPlanner == Plan

SpecPlanner == InitPlanner /\ [][NextPlanner]_vars

-----------------------------------------------------------------------------
(* The deduplications run on their own, on any list of records *)

SeqsUpTo(S, n) == UNION {[1..k -> S] : k \in 0..n}

DaySessionLists ==
    SeqsUpTo({SessionA, SessionA2, SessionB, SessionN, SessionN2, SessionE}, MaxDayLen)

\* the rows the frames are made of: with the three key columns, and without
KeyedColumns == {"session_date", "drill_id", "player_custom_id", "total_distance"}
KeyedRow(date, drill, player, distance) ==
    [session_date |-> date, drill_id |-> drill, player_custom_id |-> player,
     total_distance |-> distance]
KeyedRows == {KeyedRow(1, 1, 10, 500), KeyedRow(1, 1, 10, 700), KeyedRow(1, 2, 10, 500),
              KeyedRow(1, 1, 11, 500), KeyedRow(2, 1, 10, 500)}
KeyedFrames == {Frame(KeyedColumns, rows) : rows \in SeqsUpTo(KeyedRows, MaxRows)}

\* a merge of 100 existing rows with 20 new rows, 5 of them on keys of
\* existing rows
ExistingHundred == Frame(KeyedColumns, [n \in 1..100 |-> KeyedRow(n, 1, 10, 500)])
NewTwenty == Frame(KeyedColumns, [n \in 1..20 |-> KeyedRow(95 + n, 1, 10, 700)])

\* the values find_new_run_csv leaves for source_run
SourceRuns == {"new_run", "20240302_000000"}

StudyDay ==
    /\ pc = "day_sessions"
    /\ day_sessions \in DaySessionLists
    /\ NoFrames

UnkeyedColumns == {"player_display_name", "total_distance"}
UnkeyedRows == {[player_display_name |-> "Mason Mount", total_distance |-> 500],
                [player_display_name |-> "Mason Mount", total_distance |-> 700]}
UnkeyedFrames == {Frame(UnkeyedColumns, rows) : rows \in SeqsUpTo(UnkeyedRows, MaxRows)}

\* frames of an export without the drill_id column
PartlyKeyedColumns == {"session_date", "player_custom_id", "total_distance"}
PartlyKeyedRows ==
    {[session_date |-> 1, player_custom_id |-> 10, total_distance |-> 500],
     [session_date |-> 1, player_custom_id |-> 10, total_distance |-> 700],
     [session_date |-> 2, player_custom_id |-> 10, total_distance |-> 500]}
PartlyKeyedFrames ==
    {Frame(PartlyKeyedColumns, rows) : rows \in SeqsUpTo(PartlyKeyedRows, MaxRows)}

CsvFile(run_dir, frame) == [run_dir |-> run_dir, frame |-> frame]

StudyCombine ==
    /\ pc = "combine_and_deduplicate"
    /\ day_sessions = EmptyList
    /\ \/ existing_df \in KeyedFrames /\ new_df \in KeyedFrames
       \/ existing_df \in UnkeyedFrames /\ new_df \in UnkeyedFrames
       \/ existing_df \in PartlyKeyedFrames /\ new_df \in PartlyKeyedFrames
       \/ existing_df = ExistingHundred /\ new_df = NewTwenty
    /\ all_dataframes = <<>>
    /\ combined_df = NoFrame
    /\ deduplicated_df = NoFrame

StudyRuns ==
    /\ pc = "load_and_combine_csvs"
    /\ day_sessions = EmptyList
    /\ existing_df = NoFrame
    /\ new_df = NoFrame
    /\ \E first, second \in KeyedFrames \cup UnkeyedFrames \cup PartlyKeyedFrames :
           /\ first.columns = second.columns
           /\ all_dataframes = <<CsvFile("20240301_000000", first),
                                 CsvFile("20240302_000000", second)>>
    /\ combined_df = NoFrame
    /\ deduplicated_df = NoFrame

InitDedup ==
    /\ \/ StudyDay
       \/ StudyCombine
       \/ StudyRuns
    /\ InitStore
    /\ start_date = 0
    /\ end_date = 0
    /\ processed_dates = {}
    /\ all_sessions = EmptyList
    /\ all_player_details = EmptyDict
    /\ daily_ranges = <<>>
    /\ i = 1
    /\ player_details_for_day = EmptyList
    /\ processed_at_start = {}
    /\ hourly_ranges = <<>>
    /\ h = 1
    /\ all_day_sessions = EmptyList
    /\ full_result = NoResult
    /\ probe_result = NoResult
    /\ hour_kinds = {}
    /\ timeout = StandardTimeout
    /\ events = <<>>
    /\ planner_period_type = "day"
    /\ ranges = <<>>
    /\ day_dedup = <<>>

\* lines 305-315: dedup is built from day_sessions
DedupDay ==
    /\ pc = "day_sessions"
    /\ day_dedup' = Dedup(day_sessions)
    /\ pc' = "deduped"
    /\ UNCHANGED <<calls, life, invocations, io_failures, disk, args, orch, extr, hist, timeout, events,
                   planner_period_type, ranges, frames>>

\* line 316 (day_sessions = dedup), then the deduplication once more
DedupAgain ==
    /\ pc = "deduped"
    /\ day_sessions' = day_dedup
    /\ day_dedup' = Dedup(day_dedup)
    /\ pc' = "deduped_again"
    /\ UNCHANGED <<calls, life, invocations, io_failures, disk, args, processed_dates, all_sessions,
                   all_player_details, daily_ranges, i, player_details_for_day,
                   processed_at_start, extr, hist, timeout, events,
                   planner_period_type, ranges, frames>>

Combine(source_run) ==
    /\ pc = "combine_and_deduplicate"
    /\ combined_df' \in combine_and_deduplicate(existing_df, new_df, source_run)
    /\ pc' = "combined"
    /\ UNCHANGED <<calls, life, invocations, io_failures, disk, args, orch, extr, hist, timeout, events,
                   planner_period_type, ranges, day_dedup, existing_df, new_df,
                   all_dataframes, deduplicated_df>>

LoadAndCombine ==
    /\ pc = "load_and_combine_csvs"
    /\ combined_df' = load_and_combine_csvs(all_dataframes)
    /\ pc' = "loaded"
    /\ UNCHANGED <<calls, life, invocations, io_failures, disk, args, orch, extr, hist, timeout, events,
                   planner_period_type, ranges, day_dedup, existing_df, new_df,
                   all_dataframes, deduplicated_df>>

RemoveDuplicates ==
    /\ pc = "loaded"
    /\ deduplicated_df' = remove_duplicate_sessions(combined_df)
    /\ pc' = "deduplicated"
    /\ UNCHANGED <<calls, life, invocations, io_failures, disk, args, orch, extr, hist, timeout, events,
                   planner_period_type, ranges, day_dedup, existing_df, new_df,
                   all_dataframes, combined_df>>

\* remove_duplicate_sessions on the frame it returned
RemoveDuplicatesAgain ==
    /\ pc = "deduplicated"
    /\ combined_df' = deduplicated_df
    /\ deduplicated_df' = remove_duplicate_sessions(deduplicated_df)
    /\ pc' = "deduplicated_again"
    /\ UNCHANGED <<calls, life, invocations, io_failures, disk, args, orch, extr, hist, timeout, events,
                   planner_period_type, ranges, day_dedup, existing_df, new_df,
                   all_dataframes>>

NextDedup ==
    \/ DedupDay
    \/ DedupAgain
    \/ \E source_run \in SourceRuns : Combine(source_run)
    \/ LoadAndCombine
    \/ RemoveDuplicates
    \/ RemoveDuplicatesAgain

SpecDedup == InitDedup /\ [][NextDedup]_vars

-----------------------------------------------------------------------------
(* Properties *)

\* load_incremental_progress has just returned and the loop has not started
JustLoaded == pc = "loop" /\ i = 1

CheckpointDict == safe_read_json(checkpoint_file, EmptyDict)
CheckpointDates == Range(Get(CheckpointDict, "processed_dates", EmptyList))
SessionLines == IF progress_sessions.exists THEN progress_sessions.content ELSE <<>>
PlayerLines == IF progress_players.exists THEN progress_players.content ELSE <<>>

SameRange ==
    /\ DOMAIN CheckpointDict # {}
    /\ CheckpointDict.range_start = DateStr(start_date)
    /\ CheckpointDict.range_end = DateStr(end_date)

OtherRange ==
    /\ DOMAIN CheckpointDict # {}
    /\ \/ CheckpointDict.range_start # DateStr(start_date)
       \/ CheckpointDict.range_end # DateStr(end_date)

\* the log keys under which append_day_progress files the dates of a set
KeysOf(dates) == {DateKeyFull(d) : d \in dates}

\* the sessions and the player details the logs hold for the dates of a set
LoggedSessions(dates) == LoadSessionLines(SessionLines, KeysOf(dates))
LoggedPlayers(dates) == LoadPlayerLines(PlayerLines, KeysOf(dates), EmptyDict)

\* C1: after days were processed (appended, then checkpointed) and the process
\* stopped, a load with the same range returns the checkpoint's processed dates
\* together with exactly the sessions and the player details logged for them.
C1_ResumeRoundTrip ==
    (JustLoaded /\ SameRange) =>
        /\ processed_dates = CheckpointDates
        /\ all_sessions = LoggedSessions(CheckpointDates)
        /\ \A k \in DOMAIN LoggedPlayers(CheckpointDates) :
               LoggedPlayers(CheckpointDates)[k] # EmptyList =>
                   /\ k \in DOMAIN all_player_details
                   /\ all_player_details[k] = LoggedPlayers(CheckpointDates)[k]

\* a date is in the log but not in the checkpoint: the process stopped between
\* append_day_progress and update_checkpoint
LoggedNotCheckpointed ==
    {n \in DOMAIN SessionLines : SessionLines[n].date \notin KeysOf(CheckpointDates)}

\* C2: when the log holds an entry for a date the checkpoint does not list, a load
\* with the same range leaves that date unprocessed and returns none of its
\* sessions, and still returns the sessions of every date the checkpoint lists.
C2_CheckpointAuthoritative ==
    (JustLoaded /\ SameRange /\ LoggedNotCheckpointed # {}) =>
        /\ \A n \in LoggedNotCheckpointed :
               \A d \in processed_dates : SessionLines[n].date # DateKeyFull(d)
        /\ Len(all_sessions) = Len(LoggedSessions(CheckpointDates))
        /\ \A n \in DOMAIN SessionLines :
               SessionLines[n].date \in KeysOf(CheckpointDates) =>
                   Range(SessionLines[n].sessions) \subseteq Range(all_sessions)

\* C3: a load against a checkpoint recorded for another range returns no
\* processed date, no session and no player detail, whatever the logs hold, and
\* returns normally.
C3_RangeMismatch ==
    (JustLoaded /\ OtherRange) =>
        /\ processed_dates = {}
        /\ processed_at_start = {}
        /\ all_sessions = EmptyList
        /\ DOMAIN all_player_details = {}

C3_Witness ==
    /\ JustLoaded
    /\ OtherRange
    /\ CheckpointDates # {}
    /\ \E n \in DOMAIN SessionLines : SessionLines[n].sessions # EmptyList
    /\ PlayerLines # <<>>

\* the calendar date, or the log key, an event of the current day is about
EventDate(e) ==
    IF e.op = "getFullSessionsByDateRange" THEN DateStr(e.sessionStartDate)
    ELSE IF e.op = "getPlayerDetails" THEN e.sessionDate
    ELSE IF e.op = "append_day_progress" THEN e.date
    ELSE ""

DayPositions == {"full_day", "probe", "hourly", "dedup", "persist", "checkpoint"}
InDay == pc \in DayPositions

\* C5: no session request, probe, hourly request or player-details request is
\* issued, and no log entry is appended, for a date that was in processed_dates
\* when extract_all_data_directly started.
C5_SkipProcessed ==
    /\ \A n \in DOMAIN events :
           EventDate(events[n]) \notin (processed_at_start \cup KeysOf(processed_at_start))
    /\ InDay => date_str \notin processed_at_start
    /\ pc \in ({"loop", "done"} \cup DayPositions) =>
           processed_at_start \subseteq processed_dates

C5_Witness ==
    /\ pc = "checkpoint"
    /\ i = 2
    /\ DateStr(daily_ranges[1][1]) \in processed_at_start
    /\ \E n \in DOMAIN events : events[n].op = "getPlayerDetails"

\* C4: every date the checkpoint lists as processed has an entry in the
\* progress_sessions log, also after a log append failed.
C4_OrderingInvariant ==
    \A d \in CheckpointDates :
        \E n \in DOMAIN SessionLines : SessionLines[n].date = DateKeyFull(d)

\* what the current day's full-day call and probe came to
FullDayFailed == full_result.called /\ ~full_result.result.escaped /\ full_result.result.none
FullDayAnswered ==
    full_result.called /\ ~full_result.result.escaped /\ ~full_result.result.none
ProbeNoData ==
    /\ probe_result.called
    /\ \/ probe_result.result.escaped
       \/ probe_result.result.none
       \/ probe_result.result.value = EmptyList
ProbeFoundData ==
    /\ probe_result.called
    /\ ~probe_result.result.escaped
    /\ ~probe_result.result.none
    /\ probe_result.result.value # EmptyList

EventsOf(phase) ==
    SelectSeq(events, LAMBDA e : e.op = "getFullSessionsByDateRange" /\ e.phase = phase)
SessionRequests == SelectSeq(events, LAMBDA e : e.op = "getFullSessionsByDateRange")

\* C6: when the full-day request failed and the probe came back empty or failed,
\* the extractor returns an empty list and issues no hourly request.
C6_NoDataNoHourly ==
    (InDay /\ FullDayFailed /\ ProbeNoData) =>
        /\ pc # "hourly"
        /\ day_sessions = EmptyList
        /\ EventsOf("hourly") = <<>>
        /\ Len(SessionRequests) = 2

C6_Witness ==
    /\ pc = "dedup"
    /\ FullDayFailed
    /\ probe_result.called
    /\ ~probe_result.result.none
    /\ probe_result.result.value = EmptyList

\* C7: for every daily Period of the run, the last day of the range included,
\* when the full-day request failed, the probe found data and every hourly request
\* returned empty, exactly 24 hourly requests were issued and the result is empty.
C7_TwentyFourHourly ==
    (pc = "dedup" /\ FullDayFailed /\ ProbeFoundData /\ hour_kinds = {"empty"}) =>
        /\ Len(EventsOf("hourly")) = 24
        /\ day_sessions = EmptyList

\* C8: when the full-day request did not fail, it is the day's only session
\* request (no probe, no hourly request) and the extractor returns its answer
\* as it is, an empty list for an empty answer.
C8_FullDayAnswered ==
    (InDay /\ FullDayAnswered) =>
        /\ Len(SessionRequests) = 1
        /\ SessionRequests[1].phase = "full_day"
        /\ SessionRequests[1].sessionStartDate = day_start
        /\ SessionRequests[1].sessionEndDate = day_end
        /\ ~probe_result.called
        /\ hour_kinds = {}
        /\ pc = "dedup" => day_sessions = full_result.result.value

C8_Witness ==
    /\ pc = "dedup"
    /\ FullDayAnswered
    /\ day_sessions = <<SessionA, SessionA2>>

\* the hourly requests of a finished sweep cover the day's Period hour by hour
SweepCoversPeriod ==
    LET hourly == EventsOf("hourly")
    IN  /\ hourly # <<>>
        /\ hourly[1].sessionStartDate = day_start
        /\ hourly[Len(hourly)].sessionEndDate = day_end
        /\ \A n \in 1..(Len(hourly) - 1) :
               /\ hourly[n].sessionEndDate = hourly[n].sessionStartDate + SecondsPerHour - 1
               /\ hourly[n + 1].sessionStartDate = hourly[n].sessionEndDate + 1

\* one hourly request: whatever it got, the next hour is requested next, and
\* only a non-empty answer adds to the day's sessions, at their end
HourlyStepAdds ==
    \A outcome \in PostOutcomes(DayResponses) :
        Hourly(outcome) =>
            /\ pc' = "hourly"
            /\ h' = h + 1
            /\ all_day_sessions' =
                   all_day_sessions \o (IF outcome.raised THEN EmptyList ELSE outcome.value)

\* C9: a failed hourly request does not end the sweep: every hour of the Period
\* is requested in chronological order, and the day's result is the sessions of
\* the non-empty answers in that order, failed and empty hours adding nothing.
C9_SweepNeverAborts ==
    /\ []((pc = "dedup" /\ ProbeFoundData) => SweepCoversPeriod)
    /\ [][HourlyStepAdds]_vars
    /\ [][(pc = "hourly" /\ pc' = "dedup") => day_sessions' = all_day_sessions]_vars

C9_Witness ==
    /\ pc = "dedup"
    /\ hour_kinds = {"failed", "empty", "data"}
    /\ Len(EventsOf("hourly")) = 24
    /\ day_sessions = <<SessionB, SessionA, SessionA2>>

RangeDates ==
    {DateStr(d * SecondsPerDay) :
        d \in (start_date \div SecondsPerDay)..(end_date \div SecondsPerDay)}

\* a measure every step of the run raises
Rank ==
    CASE pc = "idle" -> 0
      [] pc = "start" -> 1
      [] pc = "loop" -> 100 * i
      [] pc = "full_day" -> 100 * i + 1
      [] pc = "probe" -> 100 * i + 2
      [] pc = "hourly" -> 100 * i + 2 + h
      [] pc = "dedup" -> 100 * i + 30
      [] pc = "persist" -> 100 * i + 31
      [] pc = "checkpoint" -> 100 * i + 32
      [] OTHER -> 100 * i + 50

NeverFatal ==
    /\ pc # "aborted"
    /\ pc \in Running => ENABLED NextExtract
    /\ pc = "done" =>
           /\ processed_dates = RangeDates
           /\ io_failures = 0 =>
                  /\ CheckpointDates = RangeDates
                  /\ CheckpointDict.total_sessions = Len(all_sessions)
                  /\ Len(SessionLines) = Cardinality(RangeDates)
                  /\ all_sessions = LoggedSessions(RangeDates)

\* C10: whichever full-day, probe, hourly and player-details calls fail, the run
\* is never aborted, every step brings it nearer its end, and at the end every
\* calendar date of the range is in processed_dates, a day that yielded nothing
\* being recorded with zero sessions.
C10_DayFailuresNeverFatal == []NeverFatal /\ [][Rank' > Rank]_vars

C10_Witness ==
    /\ pc = "done"
    /\ Len(daily_ranges) = 2
    /\ FullDayFailed
    /\ ProbeFoundData
    /\ hour_kinds = {"failed"}
    /\ all_sessions = EmptyList
    /\ CheckpointDates = RangeDates

\* C11: for any start <= end and either granularity, get_date_ranges returns
\* (the loop ends, after no more iterations than the range has periods) an
\* ordered sequence of periods: the first starts at start, the last ends at end,
\* and each next period starts one second after the previous one ends.
C11_PlannerGapless ==
    pc = "returned" =>
        /\ ranges # <<>>
        /\ Len(ranges) <= ((end_date - start_date) \div Delta(planner_period_type)) + 1
        /\ ranges[1][1] = start_date
        /\ ranges[Len(ranges)][2] = end_date
        /\ \A n \in DOMAIN ranges :
               /\ ranges[n][1] <= ranges[n][2]
               /\ ranges[n][2] - ranges[n][1] < Delta(planner_period_type)
        /\ \A n \in 1..(Len(ranges) - 1) : ranges[n + 1][1] = ranges[n][2] + 1

C11_Witness ==
    /\ pc = "returned"
    /\ planner_period_type = "hour"
    /\ start_date % SecondsPerHour # 0
    /\ Len(ranges) > 24
    /\ ranges[Len(ranges)][2] - ranges[Len(ranges)][1] < SecondsPerHour - 1

DateOf(t) == t \div SecondsPerDay

\* C12: for granularity day and any two instants, the number of periods is the
\* number of calendar dates the range spans, and each period lies inside one
\* calendar date.
C12_DayPeriodsAreCalendarDates ==
    (pc = "returned" /\ planner_period_type = "day") =>
        /\ Len(ranges) = DateOf(end_date) - DateOf(start_date) + 1
        /\ \A n \in DOMAIN ranges : DateOf(ranges[n][1]) = DateOf(ranges[n][2])

\* C13: the CLI range is inclusive of the whole end date: the full-day requests
\* of a run follow one another without a gap from S 00:00:00, and the one for the
\* last date of the range reaches E 23:59:59.
C13_EndDateInclusive ==
    (InDay /\ EventsOf("full_day") # <<>>) =>
        LET request == EventsOf("full_day")[1]
        IN  /\ request.sessionStartDate = start_date + (i - 1) * SecondsPerDay
            /\ i < Len(daily_ranges) =>
                   request.sessionEndDate = request.sessionStartDate + SecondsPerDay - 1
            /\ i = Len(daily_ranges) =>
                   request.sessionEndDate = end_date + SecondsPerDay - 1

\* two records have the same sessionDetails, whatever the order of its keys
Details(s) == IF "sessionDetails" \in DOMAIN s THEN Range(s.sessionDetails) ELSE {}
SameDetails(s, t) == Details(s) = Details(t)
FirstWith(list, s) == CHOOSE n \in DOMAIN list :
    /\ SameDetails(list[n], s)
    /\ \A m \in 1..(n - 1) : ~SameDetails(list[m], s)

\* C14: the deduplicated list of a day holds exactly one record per distinct
\* sessionDetails of the original list, that record is the first of the original
\* list with those details, and the survivors keep their relative order.
C14_DedupKeepsFirst ==
    pc = "deduped" =>
        /\ \A n \in DOMAIN day_sessions :
               \E m \in DOMAIN day_dedup : SameDetails(day_dedup[m], day_sessions[n])
        /\ \A m, k \in DOMAIN day_dedup :
               SameDetails(day_dedup[m], day_dedup[k]) => m = k
        /\ \A m \in DOMAIN day_dedup :
               /\ \E n \in DOMAIN day_sessions : SameDetails(day_sessions[n], day_dedup[m])
               /\ day_dedup[m] = day_sessions[FirstWith(day_sessions, day_dedup[m])]
        /\ \A m, k \in DOMAIN day_dedup :
               m < k => FirstWith(day_sessions, day_dedup[m])
                            < FirstWith(day_sessions, day_dedup[k])

C14_Witness ==
    /\ pc = "deduped"
    /\ day_sessions = <<SessionB, SessionA2, SessionA>>
    /\ day_dedup = <<SessionB, SessionA2>>

Key(row) == <<row.session_date, row.drill_id, row.player_custom_id>>
InputKeys == {Key(existing_df.rows[n]) : n \in DOMAIN existing_df.rows}
                 \cup {Key(new_df.rows[n]) : n \in DOMAIN new_df.rows}
\* a row as the input frames hold it, without the source tag
Untagged(row) == [c \in DOMAIN row \ {"source_run"} |-> row[c]]
FirstOf(frame, key) == frame.rows[CHOOSE n \in DOMAIN frame.rows :
    /\ Key(frame.rows[n]) = key
    /\ \A m \in 1..(n - 1) : Key(frame.rows[m]) # key]

\* C17: the merge returns exactly one row per distinct (session_date, drill_id,
\* player_custom_id) of its inputs; for a key the existing dataset has, the row
\* is the existing dataset's (its first with that key), otherwise the new
\* run's; the rows are sorted by session_date; 100 existing rows and 20 new rows
\* with 5 shared keys give 115 rows.
C17_MergeFirstWins ==
    (pc = "combined" /\ DuplicateCols \subseteq existing_df.columns) =>
        LET out == combined_df.rows
        IN  /\ {Key(out[n]) : n \in DOMAIN out} = InputKeys
            /\ \A n, m \in DOMAIN out : Key(out[n]) = Key(out[m]) => n = m
            /\ \A n \in DOMAIN out :
                   IF \E m \in DOMAIN existing_df.rows :
                          Key(existing_df.rows[m]) = Key(out[n])
                   THEN /\ Untagged(out[n]) = FirstOf(existing_df, Key(out[n]))
                        /\ out[n].source_run = "existing"
                   ELSE /\ Untagged(out[n]) = FirstOf(new_df, Key(out[n]))
                        /\ out[n].source_run \in SourceRuns
            /\ \A n \in 1..(Len(out) - 1) : out[n].session_date <= out[n + 1].session_date
            /\ (existing_df = ExistingHundred /\ new_df = NewTwenty) => Len(out) = 115

C17_Witness ==
    /\ pc = "combined"
    /\ existing_df = ExistingHundred
    /\ new_df = NewTwenty
    /\ Len(combined_df.rows) = 115
    /\ \A n \in 96..100 : combined_df.rows[n].total_distance = 500

\* C15: the per-day deduplication of an already deduplicated list, and the
\* cross-run key deduplication of an already deduplicated frame, return what
\* they were given, in the same order.
C15_DedupIdempotent ==
    /\ [][DedupAgain => day_dedup' = day_dedup]_vars
    /\ [][RemoveDuplicatesAgain => deduplicated_df' = deduplicated_df]_vars
    /\ []((pc = "combined" /\ AvailableCols(combined_df.columns) # {}) =>
              drop_duplicates(combined_df.rows, AvailableCols(combined_df.columns))
                  = combined_df.rows)

C15_Witness ==
    /\ pc = "deduped_again"
    /\ Len(day_sessions) = 2
    /\ day_dedup = <<SessionA2, SessionB>>

\* two rows are the same record from two datasets (or runs)
SameRecordTwice(r, t) == Untagged(r) = Untagged(t) /\ r.source_run # t.source_run

\* C18: when the frames have none of the three key columns, the cross-run
\* deduplication of either script compares whole records: of two identical
\* records, one from each dataset or run, one is left.
C18_WholeRecordFallback ==
    /\ (pc = "combined" /\ AvailableCols(combined_df.columns) = {}) =>
           \A n, m \in DOMAIN combined_df.rows :
               ~SameRecordTwice(combined_df.rows[n], combined_df.rows[m])
    /\ (pc = "deduplicated" /\ AvailableCols(deduplicated_df.columns) = {}) =>
           \A n, m \in DOMAIN deduplicated_df.rows :
               ~SameRecordTwice(deduplicated_df.rows[n], deduplicated_df.rows[m])

NoTwoAlike(list) ==
    \A n, m \in DOMAIN list : SameDetails(list[n], list[m]) => n = m

\* C16: a day's sessions are deduplicated before they are persisted or
\* accumulated: no log entry and no day's addition to all_sessions holds two
\* records with the same sessionDetails, whether they came from a full-day
\* answer or from an hourly sweep.
C16_DedupBeforePersist ==
    /\ [](\A n \in DOMAIN SessionLines : NoTwoAlike(SessionLines[n].sessions))
    /\ [](pc \in {"persist", "checkpoint"} => NoTwoAlike(day_sessions))
    /\ [][(pc = "dedup" /\ pc' = "persist") =>
              /\ NoTwoAlike(day_sessions')
              /\ all_sessions' = all_sessions \o day_sessions']_vars
    /\ [][(pc = "persist" /\ pc' = "checkpoint" /\ Len(SessionLines') > Len(SessionLines)) =>
              SessionLines'[Len(SessionLines')].sessions = day_sessions]_vars

C16_Witness ==
    /\ pc = "checkpoint"
    /\ "data" \in hour_kinds
    /\ day_sessions = <<SessionB, SessionA>>
    /\ SessionLines # <<>>
    /\ SessionLines[Len(SessionLines)].sessions = <<SessionB, SessionA>>

RECURSIVE SumOfLens(_)
SumOfLens(lines) ==
    IF lines = <<>> THEN 0 ELSE Len(Head(lines).sessions) + SumOfLens(Tail(lines))

\* C19: after a complete fresh run whose writes succeeded, processed_dates (in
\* memory and in the checkpoint) is the set of the calendar dates of the range,
\* and the checkpoint's total_sessions is the number of sessions the orchestrator
\* returns, which is the sum of the days' deduplicated session counts.
C19_EndToEndTotals ==
    (pc = "done" /\ io_failures = 0) =>
        /\ processed_at_start = {}
        /\ processed_dates = RangeDates
        /\ Range(CheckpointDict.processed_dates) = RangeDates
        /\ CheckpointDict.total_sessions = Len(all_sessions)
        /\ Len(SessionLines) = Len(daily_ranges)
        /\ \A n \in DOMAIN SessionLines :
               /\ SessionLines[n].date = DateKeyFull(DateStr(daily_ranges[n][1]))
               /\ NoTwoAlike(SessionLines[n].sessions)
        /\ Len(all_sessions) = SumOfLens(SessionLines)

C19_Witness ==
    /\ pc = "done"
    /\ io_failures = 0
    /\ Len(SessionLines) = 2
    /\ SessionLines[1].sessions = <<SessionB, SessionA>>
    /\ SessionLines[2].sessions = EmptyList
    /\ CheckpointDict.total_sessions = 2
    /\ Len(all_sessions) = 2

CheckpointKeys == {"range_start", "range_end", "processed_dates", "total_sessions"}

\* C20: update_checkpoint is atomic for readers: whenever checkpoint.json
\* exists, also after the process stopped in the middle of writing it, a reader
\* gets a complete checkpoint document (the previous one or the new one).
C20_CheckpointAtomic ==
    checkpoint_file.exists =>
        CheckpointKeys \subseteq DOMAIN safe_read_json(checkpoint_file, EmptyDict)

-----------------------------------------------------------------------------
(* The run directory over several invocations *)

\* the run directory of the invocation under way, or of the last one
RunDir == run_ids[Len(run_ids)]

CheckpointRange == <<Get(CheckpointDict, "range_start", ""), Get(CheckpointDict, "range_end", "")>>

\* a step that stays in one run directory and leaves the checkpoint's range as it was
SameDirSameRange ==
    /\ run_ids # <<>>
    /\ RunDir' = RunDir
    /\ DOMAIN CheckpointDict # {}
    /\ CheckpointRange' = CheckpointRange

\* C21: on one run directory and with the range unchanged, no step of main or of
\* extract_all_data_directly removes a date from the processed_dates of the
\* checkpoint on disk.
C21_ProcessedDatesMonotonic ==
    [][SameDirSameRange => CheckpointDates \subseteq CheckpointDates']_vars

\* a step in which main starts on a run directory an earlier invocation has made
InitializesExistingDir ==
    /\ Len(run_ids') = Len(run_ids) + 1
    /\ ~RunDirIsNew

\* C22: when main initializes a run directory that exists already, the progress
\* logs found there keep their content, and the checkpoint becomes the range of
\* the invocation with no processed date and total_sessions 0.
C22_InitializeExistingDir ==
    [][InitializesExistingDir =>
           /\ progress_sessions.exists => progress_sessions' = progress_sessions
           /\ progress_players.exists => progress_players' = progress_players
           /\ progress_sessions'.exists /\ progress_players'.exists
           /\ checkpoint_file' = File([range_start |-> DateStr(start_date'),
                                       range_end |-> DateStr(end_date'),
                                       processed_dates |-> <<>>,
                                       total_sessions |-> 0])]_vars

\* main, started a second time within one second, has just initialized the
\* directory of the first invocation, whose logs hold lines
C22_Witness ==
    /\ pc = "start"
    /\ invocations = 2
    /\ run_ids = <<0, 0>>
    /\ SessionLines # <<>>
    /\ PlayerLines # <<>>
    /\ CheckpointDates = {}
    /\ CheckpointDict.total_sessions = 0

\* main has removed both progress logs from the run directory
LogsRemoved == ~progress_sessions.exists /\ ~progress_players.exists

\* C23: when main has returned, the run directory holds no progress log; and a
\* load for the same range on such a directory returns no processed date.
C23_FinalizedRunNotResumed ==
    /\ pc = "finished" => LogsRemoved
    /\ (JustLoaded /\ LogsRemoved /\ SameRange) => processed_dates = {}

-----------------------------------------------------------------------------
(* One invocation of main from its arguments to its return *)

\* the three consolidated artifacts of the range are in the run directory
ArtifactsWritten ==
    /\ ArtifactName \in DOMAIN sessions_json
    /\ ArtifactName \in DOMAIN players_json
    /\ ArtifactName \in DOMAIN csv_file

\* a step that removes a progress log
RemovesLog ==
    \/ progress_sessions.exists /\ ~progress_sessions'.exists
    \/ progress_players.exists /\ ~progress_players'.exists

\* C24: main removes a progress log only when the sessions JSON, the players
\* JSON and the CSV of the run are all in the run directory.
C24_LogsRemovedAfterArtifacts == [][RemovesLog => ArtifactsWritten]_vars

\* main has ended on a fatal user error: an argument that is no date or an end
\* date before the start date (sys.exit), or no API key (ValueError)
FatalUserError == pc \in {"exit", "value_error"}

\* C25: when main ends on a fatal user error, no run directory, no checkpoint and
\* no progress log has been created and no request has been sent.
C25_FatalErrorsCreateNothing ==
    FatalUserError =>
        /\ run_ids = <<>>
        /\ ~checkpoint_file.exists
        /\ ~progress_sessions.exists
        /\ ~progress_players.exists
        /\ events = <<>>

\* C26: no two invocations of main are given the same run_id, that is, the same
\* run directory with its checkpoint and progress logs.
C26_RunDirectoryUnique ==
    \A a, b \in DOMAIN run_ids : a # b => run_ids[a] # run_ids[b]

-----------------------------------------------------------------------------
(* Runs stopped and resumed with the range unchanged *)

\* the checkpoint on disk was written for the range S..E
RangeOnDisk(S, E) ==
    CheckpointRange = <<DateStr(S * SecondsPerDay), DateStr(E * SecondsPerDay)>>

\* extract_all_data_directly called again with the range of the stopped run
ResumeSameRange(S, E) ==
    /\ RangeOnDisk(S, E)
    /\ Resume(S, E)

NextSameRange ==
    \/ \E E \in CliDates : Main(0, E)
    \/ \E E \in CliDates : ResumeSameRange(0, E)
    \/ Load
    \/ LoopExit
    \/ SkipDay
    \/ BeginDay
    \/ \E outcome \in PostOutcomes(RunResponses) : FullDay(outcome)
    \/ \E outcome \in PostOutcomes(RunResponses) : Probe(outcome)
    \/ \E script \in SweepScripts(Len(hourly_ranges)) : Sweep(script)
    \/ \E outcome \in PostOutcomes(PlayerResponses) : DedupAndPlayers(outcome)
    \/ AppendDay(FALSE, FALSE)
    \/ UpdateCheckpoint(FALSE)
    \/ Crash

SpecSameRange == Init /\ [][NextSameRange]_vars

\* the lines of progress_sessions filed under a date
EntriesOf(d) == {n \in DOMAIN SessionLines : SessionLines[n].date = DateKeyFull(d)}

\* C27: whatever days were processed and wherever the process was stopped and the
\* run resumed with the same range, progress_sessions holds at most one line per
\* date, and exactly one for every date the checkpoint lists.
C27_OneEntryPerDate ==
    /\ \A d \in RangeDates \cup CheckpointDates : Cardinality(EntriesOf(d)) <= 1
    /\ \A d \in CheckpointDates : Cardinality(EntriesOf(d)) = 1

-----------------------------------------------------------------------------
(* A run directory abandoned under one range and used again for another *)

\* the range of the abandoned run: all the dates of the model, from instant 0 on,
\* of which the first was processed before the run was given up; the directory
\* is used afterwards for the first date alone
AbandonedEnd == (NumDays - 1) * SecondsPerDay

\* what the first day of the abandoned run had yielded
AbandonedDays ==
    {[sessions |-> EmptyList, players |-> EmptyList],
     [sessions |-> <<SessionA>>, players |-> EmptyList],
     [sessions |-> <<SessionA>>, players |-> <<[customPlayerId |-> 10]>>]}

\* the run directory as the abandoned run left it: one line in each log, written
\* by append_day_progress, and the checkpoint update_checkpoint wrote after it
InitReuse ==
    /\ pc = "crashed"
    /\ invocations = 0
    /\ io_failures = 0
    /\ utcnow = 0
    /\ run_ids = <<0>>
    /\ sessions_json = EmptyDict
    /\ players_json = EmptyDict
    /\ csv_file = EmptyDict
    /\ \E day \in AbandonedDays :
           LET written == append_day_progress(DateKeyFull(DateStr(0)),
                                              day.sessions, day.players,
                                              File(<<>>), File(<<>>), FALSE, FALSE)
           IN  /\ progress_sessions = written.progress_sessions
               /\ progress_players = written.progress_players
               /\ checkpoint_file = update_checkpoint(0, AbandonedEnd,
                                                      <<DateStr(0)>>,
                                                      Len(day.sessions), NoFile, FALSE)
    /\ InitCalls
    /\ InitLocals
    /\ InitPure

NextReuse ==
    \/ Resume(0, 0)
    \/ Load
    \/ LoopExit
    \/ SkipDay
    \/ BeginDay
    \/ \E outcome \in PostOutcomes(RunResponses) : FullDay(outcome)
    \/ \E outcome \in PostOutcomes(RunResponses) : Probe(outcome)
    \/ \E script \in SweepScripts(Len(hourly_ranges)) : Sweep(script)
    \/ \E outcome \in PostOutcomes(PlayerResponses) : DedupAndPlayers(outcome)
    \/ AppendDay(FALSE, FALSE)
    \/ UpdateCheckpoint(FALSE)
    \/ Crash

\* invocations counts the calls that follow the abandoned run
SpecReuse == InitReuse /\ [][NextReuse]_vars

\* the lines the abandoned run left in progress_sessions, and those appended since
StaleEntries == {1}
FreshEntries == DOMAIN SessionLines \ StaleEntries

\* the sessions of the lines at some positions, in the order of the log
SessionsAt(positions) ==
    Concat([n \in DOMAIN SessionLines |->
                IF n \in positions THEN SessionLines[n].sessions ELSE <<>>])

-----------------------------------------------------------------------------
(* File writes that fail during the extraction *)

\* a step in which an append to a log or the write of the checkpoint failed
WriteFailed == io_failures' > io_failures

\* what the step of append_day_progress and the step of update_checkpoint do to
\* the memory of the run when every write succeeds
AsIfWritten ==
    /\ all_sessions' = all_sessions
    /\ all_player_details' = all_player_details
    /\ daily_ranges' = daily_ranges
    /\ pc = "persist" =>
           /\ pc' = "checkpoint"
           /\ processed_dates' = processed_dates
           /\ i' = i
    /\ pc = "checkpoint" =>
           /\ pc' = "loop"
           /\ processed_dates' = processed_dates \cup {date_str}
           /\ i' = i + 1

\* C29: a failed log append or checkpoint write does not end the run: the step
\* leaves the memory of the run as a successful write does, the days that remain
\* are processed, and the run returns with every date of the range processed.
C29_WriteFailuresNotFatal ==
    /\ [][(WriteFailed /\ pc \in {"persist", "checkpoint"}) => AsIfWritten]_vars
    /\ [](pc # "aborted")
    /\ [](pc = "done" => processed_dates = RangeDates)

\* a run of two days has returned with sessions although a write of its first
\* day had failed
C29_Witness ==
    /\ pc = "done"
    /\ io_failures > 0
    /\ Cardinality(RangeDates) = 2
    /\ processed_dates = RangeDates
    /\ all_sessions # <<>>
    /\ \/ EntriesOf(DateStr(start_date)) = {}
       \/ DateStr(start_date) \notin CheckpointDates

-----------------------------------------------------------------------------
(* load_incremental_progress on a run directory whose files are damaged *)

\* the lines a log can hold: a day's line as append_day_progress writes it, or a
\* line that cannot be parsed
SessionLogLines ==
    {[date |-> DateKeyFull(DateStr(d * SecondsPerDay)), sessions |-> s] :
        d \in CliDates, s \in {EmptyList, <<SessionA>>}} \cup {Malformed}
PlayerLogLines ==
    {[date |-> DateKeyFull(DateStr(d * SecondsPerDay)),
      players |-> <<[customPlayerId |-> 10]>>] : d \in CliDates} \cup {Malformed}

\* the logs a run directory can hold: none, or up to MaxLogLines lines
LogsOf(lines) == {NoFile} \cup {File(content) : content \in SeqsUpTo(lines, MaxLogLines)}

\* the checkpoints a run over all the dates of the model can leave: none (the
\* initialization failed), one cut short, or the one written after k days
CheckpointsOf(range_start, range_end) ==
    {NoFile, File(Partial)}
        \cup {update_checkpoint(range_start, range_end,
                                [n \in 1..k |-> DateStr((n - 1) * SecondsPerDay)],
                                k, NoFile, FALSE) : k \in 0..NumDays}

\* extract_all_data_directly is called on such a directory
InitLoad ==
    /\ pc = "start"
    /\ invocations = 1
    /\ io_failures = 0
    /\ utcnow = 0
    /\ run_ids = <<0>>
    /\ sessions_json = EmptyDict
    /\ players_json = EmptyDict
    /\ csv_file = EmptyDict
    /\ start_date = 0
    /\ end_date = (NumDays - 1) * SecondsPerDay
    /\ checkpoint_file \in CheckpointsOf(0, (NumDays - 1) * SecondsPerDay)
    /\ progress_sessions \in LogsOf(SessionLogLines)
    /\ progress_players \in LogsOf(PlayerLogLines)
    /\ InitCalls
    /\ InitFrames
    /\ InitPure

NextLoad == Load

SpecLoad == InitLoad /\ [][NextLoad]_vars

\* json.load gives no checkpoint: the file is missing or cannot be parsed
NoUsableCheckpoint == DOMAIN CheckpointDict = {}

\* the lines of a log that json.loads accepts
WellFormed(lines) == SelectSeq(lines, LAMBDA line : ~Rejected(line))

\* the keys the lines of the logs are filed under
LineKeys == {Get(line, "date", "") : line \in Range(SessionLines) \cup Range(PlayerLines)}

\* C30: a load that finds no checkpoint, or one that cannot be parsed, returns no
\* processed date, no session and no player detail, and returns normally; and
\* whatever dates are processed, a log with lines that cannot be parsed yields
\* what the same log without those lines yields.
C30_LoadToleratesDamage ==
    /\ pc # "aborted"
    /\ (JustLoaded /\ NoUsableCheckpoint) =>
           /\ processed_dates = {}
           /\ all_sessions = EmptyList
           /\ all_player_details = EmptyDict
    /\ \A processed \in SUBSET LineKeys :
           /\ LoadSessionLines(SessionLines, processed)
                  = LoadSessionLines(WellFormed(SessionLines), processed)
           /\ LoadPlayerLines(PlayerLines, processed, EmptyDict)
                  = LoadPlayerLines(WellFormed(PlayerLines), processed, EmptyDict)

\* a load has returned on a checkpoint cut short and a log that holds a line
\* that cannot be parsed before one that can
C30_Witness ==
    /\ JustLoaded
    /\ checkpoint_file = File(Partial)
    /\ processed_dates = {}
    /\ Len(SessionLines) = 2
    /\ Rejected(SessionLines[1])
    /\ ~Rejected(SessionLines[2])
    /\ SessionLines[2].sessions # <<>>

-----------------------------------------------------------------------------
(* The timeout of the requests *)

\* the session requests of the day being processed, by phase
RequestsOf(phase) ==
    {k \in DOMAIN events :
        events[k].op = "getFullSessionsByDateRange" /\ events[k].phase = phase}

\* C31: the probe request is sent with the discovery timeout, every full-day and
\* hourly request with the standard timeout, and outside the probe the client's
\* timeout is the standard one, whatever the probe's answer was.
C31_OnlyProbeUsesShortTimeout ==
    /\ timeout = StandardTimeout
    /\ \A k \in RequestsOf("probe") : events[k].timeout = DiscoveryTimeout
    /\ \A k \in RequestsOf("full_day") \cup RequestsOf("hourly") :
           events[k].timeout = StandardTimeout

\* on a day after the first, a probe found data and an hourly request followed it
C31_Witness ==
    /\ i > 1
    /\ \E p \in RequestsOf("probe") : \E k \in RequestsOf("hourly") : p < k

-----------------------------------------------------------------------------
(* StatsportsClient.post *)

\* what one attempt gets: a response with a status, or an exception of requests
Status(code) == [status |-> code]
Exception(name) == [exception |-> name]
IsStatus(response) == "status" \in DOMAIN response
Attempts ==
    {Status(code) : code \in {200, 204, 404, 429, 503}}
        \cup {Exception(name) : name \in {"Timeout", "ConnectionError", "InvalidURL"}}

Is2xx(response) == IsStatus(response) /\ 200 <= response.status /\ response.status < 300
RetryStatuses == {429, 500, 502, 503, 504}
\* the failures the loop may try again after
Transient(response) ==
    IF IsStatus(response) THEN response.status \in RetryStatuses
    ELSE response.exception \in {"Timeout", "ConnectionError"}

\* a loop that allows one attempt more
MayRetryOnceMore(n, allowed) == n <= allowed + 1

\* attempt <= retry
MayRetry(n, allowed) == n <= allowed

\* where the loop is after attempt n got the response
AfterAttempt(response, n, allowed) ==
    IF Is2xx(response) THEN "returned"
    ELSE IF Transient(response) /\ MayRetry(n, allowed) THEN "loop"
    ELSE "raised"

\* post is called
CallPost ==
    /\ pc = "post"
    /\ post_state = "not_called"
    /\ attempt' = 0
    /\ post_state' = "loop"
    /\ UNCHANGED <<pure, life, pc, invocations, io_failures, disk, args, orch, extr, hist,
                   timeout, events, retry, responses, onedrive>>

\* one pass of the while loop
Attempt(response) ==
    /\ pc = "post"
    /\ post_state = "loop"
    /\ attempt' = attempt + 1
    /\ responses' = Append(responses, response)
    /\ post_state' = AfterAttempt(response, attempt + 1, retry)
    /\ UNCHANGED <<pure, life, pc, invocations, io_failures, disk, args, orch, extr, hist,
                   timeout, events, retry, onedrive>>

InitPost ==
    /\ pc = "post"
    /\ invocations = 0
    /\ io_failures = 0
    /\ checkpoint_file = NoFile
    /\ progress_sessions = NoFile
    /\ progress_players = NoFile
    /\ InitLife
    /\ InitLocals
    /\ InitPure
    /\ InitOneDrive
    /\ retry \in 0..MaxRetry
    /\ attempt = 0
    /\ responses = <<>>
    /\ post_state = "not_called"

NextPost ==
    \/ CallPost
    \/ \E response \in Attempts : Attempt(response)

\* the loop body always runs to its end: an attempt ends with a response or an
\* exception (the transport has a timeout) and the backoff sleep is finite
SpecPost == InitPost /\ [][NextPost]_vars /\ WF_vars(NextPost)

PostEnded == post_state \in {"returned", "raised"}

\* the attempts before the last
Earlier == 1..(Len(responses) - 1)

PostSafe ==
    /\ attempt = Len(responses)
    /\ attempt <= retry + 1
    /\ \A k \in Earlier : Transient(responses[k])
    /\ post_state = "returned" <=> (responses # <<>> /\ Is2xx(responses[Len(responses)]))
    /\ post_state = "raised" <=>
           /\ responses # <<>>
           /\ ~Is2xx(responses[Len(responses)])
           /\ \/ ~Transient(responses[Len(responses)])
              \/ attempt = retry + 1

\* C32: post makes at most retry + 1 attempts, timeouts, connection errors and
\* 429/5xx responses counted together; it returns at the first 2xx response,
\* raises at once on any other status, raises when a transient failure comes
\* with the retries used up; and it always ends.
C32_PostBoundedAndEnds == []PostSafe /\ <>PostEnded

\* a post given retries raised after retry + 1 attempts that met both an
\* exception of the transport and a 5xx response
C32_Witness ==
    /\ post_state = "raised"
    /\ retry > 0
    /\ attempt = retry + 1
    /\ \E k \in DOMAIN responses : ~IsStatus(responses[k])
    /\ \E k \in DOMAIN responses : IsStatus(responses[k])

-----------------------------------------------------------------------------
(* The running total of the checkpoint *)

\* the line of progress_sessions appended last for a date
LastEntryOf(d) == CHOOSE n \in EntriesOf(d) : \A k \in EntriesOf(d) : k <= n

\* the deduplicated sessions of the dates the checkpoint lists, as they were
\* appended when each date was processed last
SessionsOfCheckpointDates ==
    SessionsAt({LastEntryOf(d) : d \in {c \in CheckpointDates : EntriesOf(c) # {}}})

TotalCoversCheckpointDates ==
    /\ \A d \in CheckpointDates : EntriesOf(d) # {}
    /\ CheckpointDict.total_sessions = Len(SessionsOfCheckpointDates)

\* C33: every write of the checkpoint, in a fresh run and in a resumed one, stores
\* as total_sessions the number of deduplicated sessions of all the dates it
\* lists in processed_dates.
C33_TotalCoversProcessedDates ==
    [][checkpoint_file' # checkpoint_file => TotalCoversCheckpointDates']_vars

-----------------------------------------------------------------------------
(* The requests of one day *)

SessionRequestsOfDay ==
    {k \in DOMAIN events : events[k].op = "getFullSessionsByDateRange"}
PlayerRequestsOfDay == {k \in DOMAIN events : events[k].op = "getPlayerDetails"}

\* C34: the processing of one day issues at most one full-day request, one probe
\* and 24 hourly requests, 26 session requests in all, and at most one
\* player-details request; that request is issued only for a non-empty
\* deduplicated session list and after every session request of the day.
C34_RequestBudget ==
    /\ Cardinality(RequestsOf("full_day")) <= 1
    /\ Cardinality(RequestsOf("probe")) <= 1
    /\ Cardinality(RequestsOf("hourly")) <= 24
    /\ Cardinality(SessionRequestsOfDay) <= 26
    /\ Cardinality(PlayerRequestsOfDay) <= 1
    /\ PlayerRequestsOfDay # {} => day_sessions # EmptyList
    /\ \A p \in PlayerRequestsOfDay : \A k \in SessionRequestsOfDay : k < p

\* a day took its 26 session requests and then the player-details request
C34_Witness ==
    /\ Cardinality(SessionRequestsOfDay) = 26
    /\ PlayerRequestsOfDay # {}

-----------------------------------------------------------------------------
(* The intervals of the requests of one day *)

\* C35: every session request issued while a day is processed, the probe
\* included, asks for an interval inside the day's Period (day_start, day_end) as
\* get_date_ranges clipped it.
C35_RequestsInsidePeriod ==
    InDay =>
        \A k \in SessionRequestsOfDay :
            /\ day_start <= events[k].sessionStartDate
            /\ events[k].sessionStartDate <= events[k].sessionEndDate
            /\ events[k].sessionEndDate <= day_end

-----------------------------------------------------------------------------
(* Records without sessionDetails *)

\* the positions of the records of a list that carry no sessionDetails
WithoutDetails(list) == {n \in DOMAIN list : "sessionDetails" \notin DOMAIN list[n]}

\* C36: the records without sessionDetails have the signature of the empty
\* structure, so the deduplication of a day keeps at most one of them, the first
\* of the list, whatever their other fields; it keeps that one unless a record
\* with the same signature comes before it.
C36_OneRecordWithoutDetails ==
    pc = "deduped" =>
        LET bare == WithoutDetails(day_sessions)
            kept == WithoutDetails(day_dedup)
        IN  /\ \A n \in bare : Signature(day_sessions[n]) = JsonDumpsSorted(EmptyDict)
            /\ Cardinality(kept) <= 1
            /\ \A n \in kept : \E f \in bare :
                   /\ day_dedup[n] = day_sessions[f]
                   /\ \A m \in bare : f <= m
            /\ (\E f \in bare : \A m \in 1..(f - 1) :
                     Signature(day_sessions[m]) # JsonDumpsSorted(EmptyDict))
                   => kept # {}

\* two records without sessionDetails that differ in their other field, a record
\* with sessionDetails between them: the second is dropped
C36_Witness ==
    /\ pc = "deduped"
    /\ day_sessions = <<SessionN, SessionB, SessionN2>>
    /\ day_dedup = <<SessionN, SessionB>>

-----------------------------------------------------------------------------
(* Cross-run deduplication when key columns are missing *)

\* some of the three key columns are in the frame, and not all
PartlyKeyed(columns) ==
    /\ DuplicateCols \cap columns # {}
    /\ ~(DuplicateCols \subseteq columns)

\* output holds, for each value of the key columns in input, the first row of
\* input with that value (as far as the compared columns tell) and no other row
FirstRowPerKey(input, output, key, compared) ==
    /\ \A n, m \in DOMAIN output :
           KeyOf(output[n], key) = KeyOf(output[m], key) => n = m
    /\ \A n \in DOMAIN input : \E m \in DOMAIN output :
           KeyOf(output[m], key) = KeyOf(input[n], key)
    /\ \A m \in DOMAIN output : \E n \in DOMAIN input :
           /\ KeyOf(input[n], compared) = KeyOf(output[m], compared)
           /\ \A k \in 1..(n - 1) : KeyOf(input[k], key) # KeyOf(input[n], key)

\* C37: when the merged frame has some of the three key columns and not all,
\* both scripts deduplicate on the key columns it has: of the rows that agree on
\* them only the first is kept, whatever their other columns.
C37_SubsetOfKeyColumns ==
    /\ (pc = "combined" /\ PartlyKeyed(combined_df.columns)) =>
           FirstRowPerKey(existing_df.rows \o new_df.rows, combined_df.rows,
                          DuplicateCols \cap combined_df.columns, existing_df.columns)
    /\ (pc = "deduplicated" /\ PartlyKeyed(combined_df.columns)) =>
           FirstRowPerKey(combined_df.rows, deduplicated_df.rows,
                          DuplicateCols \cap combined_df.columns, combined_df.columns)

\* without drill_id, the new row of a date and player that the existing data
\* has with another distance is dropped
C37_Witness ==
    /\ pc = "combined"
    /\ PartlyKeyed(combined_df.columns)
    /\ Len(existing_df.rows) = 1
    /\ Len(new_df.rows) = 1
    /\ existing_df.rows[1].total_distance # new_df.rows[1].total_distance
    /\ Len(combined_df.rows) = 1
    /\ combined_df.rows[1].total_distance = existing_df.rows[1].total_distance

-----------------------------------------------------------------------------
(* upload_to_onedrive and create_onedrive_folder *)

\* what a request of the uploader gets: a response with a status, whose body
\* has an id or not, or an exception of requests (or of open)
Answer(code, has_id) == [status |-> code, has_id |-> has_id]
PutAnswers ==
    {Answer(200, TRUE), Answer(200, FALSE), Answer(404, FALSE), Answer(403, FALSE),
     Exception("ConnectionError")}
PostAnswers ==
    {Answer(201, TRUE), Answer(201, FALSE), Answer(409, FALSE), Answer(403, FALSE),
     Exception("ConnectionError")}

\* raise_for_status raises HTTPError for the statuses from 400
IsHttpError(answer) == IsStatus(answer) /\ answer.status >= 400

\* what the try block of upload_to_onedrive comes to: True, False, or the
\* creation of the folder
AfterPut(answer) ==
    IF ~IsStatus(answer) THEN "False"
    ELSE IF IsHttpError(answer) THEN IF answer.status = 404 THEN "create" ELSE "False"
    ELSE IF answer.has_id THEN "True" ELSE "False"

\* create_onedrive_folder
create_onedrive_folder(answer) ==
    IF ~IsStatus(answer) THEN FALSE
    ELSE IF IsHttpError(answer) THEN answer.status = 409
    ELSE answer.has_id

\* the answers to the first MaxUploads rounds (a PUT, a POST) are logged
Logged(log, answer) == IF Len(log) < 2 * MaxUploads THEN Append(log, answer) ELSE log

CallUpload ==
    /\ pc = "upload"
    /\ upload_state = "not_called"
    /\ upload_state' = "put"
    /\ UNCHANGED <<pure, life, pc, invocations, io_failures, disk, args, orch, extr, hist,
                   timeout, events, http, upload_result, upload_attempts, upload_log>>

\* the try block of upload_to_onedrive: the file is opened and sent
Put(answer) ==
    /\ pc = "upload"
    /\ upload_state = "put"
    /\ upload_attempts' = IF upload_attempts < MaxUploads THEN upload_attempts + 1
                          ELSE upload_attempts
    /\ upload_log' = Logged(upload_log, answer)
    /\ IF AfterPut(answer) = "create"
       THEN /\ upload_state' = "create"
            /\ UNCHANGED upload_result
       ELSE /\ upload_state' = "returned"
            /\ upload_result' = AfterPut(answer)
    /\ UNCHANGED <<pure, life, pc, invocations, io_failures, disk, args, orch, extr, hist,
                   timeout, events, http>>

\* the handler of the 404: create_onedrive_folder, then upload_to_onedrive again
\* when it returned True, whose result is returned as it is
CreateFolder(answer) ==
    /\ pc = "upload"
    /\ upload_state = "create"
    /\ upload_log' = Logged(upload_log, answer)
    /\ IF create_onedrive_folder(answer)
       THEN /\ upload_state' = "put"
            /\ UNCHANGED upload_result
       ELSE /\ upload_state' = "returned"
            /\ upload_result' = "False"
    /\ UNCHANGED <<pure, life, pc, invocations, io_failures, disk, args, orch, extr, hist,
                   timeout, events, http, upload_attempts>>

InitUpload ==
    /\ pc = "upload"
    /\ invocations = 0
    /\ io_failures = 0
    /\ checkpoint_file = NoFile
    /\ progress_sessions = NoFile
    /\ progress_players = NoFile
    /\ InitLife
    /\ InitLocals
    /\ InitPure
    /\ InitCalls

NextUpload ==
    \/ CallUpload
    \/ \E answer \in PutAnswers : Put(answer)
    \/ \E answer \in PostAnswers : CreateFolder(answer)

\* every request gets its answer and the function goes on
SpecUpload == InitUpload /\ [][NextUpload]_vars /\ WF_vars(NextUpload)

\* C38: upload_to_onedrive ends, and with True or False, whatever the remote
\* answers: no sequence of answers keeps it sending PUT requests for ever.
C38_UploadEnds ==
    /\ [](upload_state = "returned" => upload_result \in {"True", "False"})
    /\ <>(upload_state = "returned")

====
